---------------------------- MODULE Spec2Model ----------------------------
(***************************************************************************)
(* State-machine model of the photo compressor:                            *)
(*   - ProfileConditions._match / matches       (compression_profiles.py)  *)
(*   - save_profiles / load_profiles / select_profile                       *)
(*   - ImageCompressor.compress_image resize planning                       *)
(*   - ImageCompressor.process_directory        (image_compression.py)     *)
(*   - save_compression_settings                (image_compression.py)     *)
(*   - CompressionWorker.run / stop             (main.py)                  *)
(*   - format_timedelta                         (file_utils.py)            *)
(*   - ThumbnailObserver / ThumbnailRunnable    (image_comparison_viewer) *)
(*   - MainWindow profile panels, ProfilePanel  (main.py, profile_panel)  *)
(*   - ImageCompressor.__init__ / apply_profile (image_compression.py)     *)
(*   - LRUCache                                 (image_pair.py)            *)
(*                                                                         *)
(* Python values are represented as follows.                               *)
(*   Optional[T]   : the empty set for None, the singleton {x} for x       *)
(*   dict[str,str] : a set of <<key, value>> pairs with distinct keys       *)
(*   list[str]     : a sequence (profiles) or a set (input_formats, where  *)
(*                   only membership is ever used)                         *)
(*   a number      : a fraction [num, den] with den > 0, so that the       *)
(*                   quotient width / height is compared exactly           *)
(***************************************************************************)
EXTENDS Integers, Sequences, FiniteSets, TLC

VARIABLES
    \* --- ProfileConditions.matches -------------------------------------
    mCond,          \* the ProfileConditions under evaluation
    mImage,         \* the keyword arguments handed to matches()
    mResults,       \* the list `conditions` built by matches(), <<>> before the call
    mPc,            \* "idle" | "ready" | "done"
    \* --- save_profiles / load_profiles / select_profile ------------------
    profiles,       \* the ordered profile list
    image,          \* the image handed to select_profile
    selected,       \* index of the profile select_profile returned, 0 for None
    profileFile,    \* the JSON document written by save_profiles, <<>> if none
    loaded,         \* the list returned by load_profiles
    selectedLoaded, \* select_profile over the loaded list
    sPc,            \* "idle" | "ready" | "selected" | "saved" | "loaded" | "done"
    \* --- compress_image resize planning ---------------------------------
    rImg,           \* [w, h] of the opened image
    rLimits,        \* [largest, smallest]: max_largest_side / max_smallest_side
    rNew,           \* [w, h] planned, meaningful once rPc = "planned"
    rPc,            \* "idle" | "ready" | "planned"
    \* --- ImageCompressor.process_directory ------------------------------
    input_root,     \* the regular files under the input root
    compressor,     \* self: quality, size limits and format parameters
    unreadable,     \* the files of input_root that Image.open cannot decode
    preserve_structure, \* self.preserve_structure
    output_format,  \* self.output_format
    dirProfiles,    \* the argument `profiles`
    num_workers,    \* the argument `num_workers`
    outputBefore,   \* the output root before the call: [exists, files]
    output_root,    \* the output root now: [exists, files]
    overwritten,    \* output paths that were written while already present
    total_files,
    processed_files,
    compressed_files,
    compressed_paths,
    failed_files,
    worker_count,
    tasks,          \* the list `tasks` of (src, dst)
    used_names,
    toVisit,        \* files the rglob loop has not yet yielded
    futures,        \* parallel mode: per task "pending" | "running" | "finished" | "collected"
    saved,          \* parallel mode: per task the value compress_image returned
    error,          \* the exception process_directory raised, "" if none
    progress,       \* the calls of progress_callback so far, as <<completed, total>>
    report,         \* compression_settings.json as written, None before
    dPc,            \* "idle" | "start" | "planning" | "sequential" | "parallel"
                    \*   | "returned" | "raised"
    \* --- CompressionWorker / MainWindow ---------------------------------
    stop_event,     \* CompressionWorker._stop_event.is_set()
    cancelled,      \* CompressionWorker.cancelled
    signals,        \* the signals the worker has emitted, in order
    status_label,   \* the text MainWindow shows in its status label
    wPc,            \* "idle" | "created" | "calling" | "except" | "emitted" | "handled"
    \* --- format_timedelta -------------------------------------------------
    delta,          \* the timedelta: [days, seconds, microseconds], normalised
    parts,          \* the list `parts`; the result is " ".join(parts)
    tPc,            \* "idle" | "ready" | "done"
    \* --- thumbnail preloading of the comparison viewer --------------------
    image_pairs,    \* MainWindow.image_pairs: the kind of each pair object
    runnable,       \* per pair: "none" | "queued" | "returned" | "raised"
    posted,         \* per pair: how often its runnable invoked report_done
    events,         \* queued report_done invocations not yet delivered
    observer,       \* ThumbnailObserver: [total, done]
    tnSignals,      \* the signals the observer has emitted, in order
    dialog,         \* LoadingDialog: "none" | "open" | "accepted"
    tnPc,           \* "idle" | "ready" | "exec" | "returned"
    \* --- the profile panels of the main window ----------------------------
    profile_panels, \* MainWindow.profile_panels, <<>> before the window exists
    \* --- ImageCompressor.__init__ / apply_profile -------------------------
    qSelf,          \* the ImageCompressor: quality, size limits, format parameters
    qRaised,        \* the exception the last apply_profile raised, "" if none
    handed,         \* the quality last handed to an encoder, None before
    qCalls,         \* number of apply_profile calls so far
    \* --- the run configuration for unsupported files ---------------------
    copy_unsupported,   \* the caller wants unsupported files copied
    unsupported_dir,    \* the separate directory the caller configured, or None
    unsupported_tree,   \* the files under that directory
    cPc,            \* "idle" | "new" | "constructed" | "TypeError"
    \* --- LRUCache ----------------------------------------------------------
    lru,            \* the OrderedDict: <<key, value>> pairs, oldest first
    max_size,       \* LRUCache.max_size
    touched,        \* the keys put or found by get so far, in call order
    ret             \* what the last get returned, None for None

matchVars  == <<mCond, mImage, mResults, mPc>>
selectVars == <<profiles, image, selected, profileFile, loaded, selectedLoaded, sPc>>
resizeVars == <<rImg, rLimits, rNew, rPc>>
dirInputs  == <<input_root, compressor, unreadable, preserve_structure, output_format,
                dirProfiles, num_workers, outputBefore>>
dirCounts  == <<total_files, processed_files, compressed_files, compressed_paths,
                failed_files>>
dirVars    == <<dirInputs, dirCounts, output_root, overwritten, worker_count, tasks,
                used_names, toVisit, futures, saved, error, progress, report, dPc>>

workerVars == <<stop_event, cancelled, signals, status_label, wPc>>
timeVars   == <<delta, parts, tPc>>
thumbVars  == <<image_pairs, runnable, posted, events, observer, tnSignals, dialog, tnPc>>
panelVars  == <<profile_panels>>
qualityVars == <<qSelf, qRaised, handed, qCalls>>
configVars == <<copy_unsupported, unsupported_dir, unsupported_tree, cPc>>
cacheVars  == <<lru, max_size, touched, ret>>

-----------------------------------------------------------------------------
(* Bounds of the model *)

MaxSide  == 2      \* image widths and heights range over 1..MaxSide
MaxBytes == 2      \* file sizes range over 1..MaxBytes
MaxProfiles == 3   \* profile lists hold 1..MaxProfiles profiles
MaxDim   == 5      \* resize planning: sides and limits range over 1..MaxDim
MaxFiles == 3      \* an input tree holds 1..MaxFiles files
MaxWorkers == 2    \* num_workers ranges over 1..MaxWorkers
MaxDays  == 1      \* durations span 0..MaxDays days and a part of a day
CpuCount == 2      \* os.cpu_count() of the machine the model runs on
MaxPairs == 3      \* the viewer holds 0..MaxPairs image pairs
MaxPanels == 3     \* the main window holds at most MaxPanels profile panels
MaxApply == 2      \* at most MaxApply calls of apply_profile on one compressor
MaxKeys  == 3      \* cache keys range over 1..MaxKeys
MaxCacheSize == 2  \* LRUCache.max_size ranges over 0..MaxCacheSize
MaxTouches == 4    \* at most MaxTouches cache operations that touch a key

None == {}
Some(x) == {x}
NoneVal == "<None>"    \* Python's None where it occurs as a dict value

Min2(a, b) == IF a <= b THEN a ELSE b
Max2(a, b) == IF a >= b THEN a ELSE b

Frac(n, d) == [num |-> n, den |-> d]
Whole(n)   == Frac(n, 1)

-----------------------------------------------------------------------------
(* compression_profiles.py : NumericCondition, ProfileConditions *)

Ops == {"<", "<=", ">", ">=", "=="}

NumericCondition(op, value) == [op |-> op, value |-> value]

\* str.upper() on the format names that occur in the model
upper(s) ==
    CASE s = "png"  -> "PNG"
      [] s = "jpeg" -> "JPEG"
      [] OTHER      -> s

\* The dict literal of _match: every comparison is evaluated, .get(op, False)
\* picks one; an operator outside the five keys yields False.
Compare(op, actual, value) ==
    CASE op = "<"  -> actual.num <  value * actual.den
      [] op = "<=" -> actual.num <= value * actual.den
      [] op = ">"  -> actual.num >  value * actual.den
      [] op = ">=" -> actual.num >= value * actual.den
      [] op = "==" -> actual.num =  value * actual.den
      [] OTHER     -> FALSE

_match_FailOpen(cond, actual) ==
    IF cond = None THEN TRUE
    ELSE IF actual = None THEN TRUE
    ELSE \E c \in cond, a \in actual : Compare(c.op, a, c.value)

_match_ActualFirst(cond, actual) ==
    IF actual = None THEN FALSE
    ELSE IF cond = None THEN TRUE
    ELSE \E c \in cond, a \in actual : Compare(c.op, a, c.value)

_match(cond, actual) ==
    IF cond = None THEN TRUE
    ELSE IF actual = None THEN FALSE
    ELSE \E c \in cond, a \in actual : Compare(c.op, a, c.value)

\* dict.get(k): the value stored under k, None when k is missing
DictGet(d, k) ==
    IF \E kv \in d : kv[1] = k THEN (CHOOSE kv \in d : kv[1] = k)[2] ELSE NoneVal

CondFields == <<"smallest_side", "largest_side", "pixel_count", "aspect_ratio",
                "orientation", "input_formats", "requires_transparency",
                "file_size", "required_exif">>

\* The list `conditions` of matches(), in source order.
ConditionList(c, width, height, image_format, has_transparency, file_size, exif) ==
    LET smallest_side == Min2(width, height)
        largest_side  == Max2(width, height)
        pixels        == width * height
        aspect_ratio  == Frac(width, height)
        orientation   == IF width = height THEN "square"
                         ELSE IF width > height THEN "landscape" ELSE "portrait"
    IN  << _match(c.smallest_side, Some(Whole(smallest_side))),
           _match(c.largest_side, Some(Whole(largest_side))),
           _match(c.pixel_count, Some(Whole(pixels))),
           _match(c.aspect_ratio, Some(aspect_ratio)),
           c.orientation = None \/ Some(orientation) = c.orientation,
           c.input_formats = None
             \/ (image_format # None
                 /\ \E f \in image_format, fs \in c.input_formats :
                        upper(f) \in {upper(g) : g \in fs}),
           c.requires_transparency = None
             \/ (has_transparency # None /\ has_transparency = c.requires_transparency),
           _match(c.file_size, {Whole(b) : b \in file_size}),
           \* `not self.required_exif`: None and the empty dict are both falsy
           (c.required_exif = None \/ c.required_exif = Some({}))
             \/ (exif # None
                 /\ \A req \in c.required_exif, e \in exif :
                        \A kv \in req : DictGet(e, kv[1]) = kv[2]) >>

All(seq) == \A i \in 1..Len(seq) : seq[i]

matches(c, img) ==
    All(ConditionList(c, img.width, img.height, img.image_format,
                      img.has_transparency, img.file_size, img.exif))

AllUnset ==
    [smallest_side |-> None, largest_side |-> None, pixel_count |-> None,
     aspect_ratio |-> None, orientation |-> None, input_formats |-> None,
     requires_transparency |-> None, file_size |-> None, required_exif |-> None]


-----------------------------------------------------------------------------
(* Inputs of matches(): conditions with at most two fields set, and the     *)
(* keyword arguments, each of which may be absent.                          *)

\* the five operators of _match and one that is none of its keys
NumericConditions == {NumericCondition(op, 2) : op \in Ops \cup {"!="}}

FieldValues(f) ==
    CASE f \in {"smallest_side", "largest_side", "pixel_count", "aspect_ratio", "file_size"}
             -> {Some(nc) : nc \in NumericConditions}
      [] f = "orientation"           -> {Some(o) : o \in {"square", "landscape", "portrait"}}
      [] f = "input_formats"         -> {Some({"png"}), Some({"JPEG", "GIF"})}
      [] f = "requires_transparency" -> {Some(TRUE), Some(FALSE)}
      [] f = "required_exif"         -> {Some({}), Some({<<"Make", "x">>}),
                                         Some({<<"Make", NoneVal>>}),
                                         Some({<<"Make", "x">>, <<"Model", "y">>})}

FieldNames == {CondFields[i] : i \in 1..Len(CondFields)}

\* [AllUnset EXCEPT ![f] = v] for every field f and every value v of that field
CondsWithOne ==
    UNION {{[AllUnset EXCEPT ![f] = v] : v \in FieldValues(f)} : f \in FieldNames}

CondsWithTwo ==
    UNION {UNION {{[c EXCEPT ![f] = v] : v \in FieldValues(f)} : f \in FieldNames}
           : c \in CondsWithOne}

MatchConds == {AllUnset} \cup CondsWithOne \cup CondsWithTwo

ExifMaps == {{}, {<<"Make", "x">>}, {<<"Make", "y">>},
             {<<"Make", "x">>, <<"Model", "y">>}}

MatchImages ==
    [width : 1..MaxSide, height : 1..MaxSide,
     image_format : {None, Some("PNG"), Some("jpeg"), Some("")},
     has_transparency : {None, Some(TRUE), Some(FALSE)},
     file_size : {None} \cup {Some(b) : b \in 1..MaxBytes},
     exif : {None} \cup {Some(e) : e \in ExifMaps}]

MatchIdle == /\ mCond = AllUnset
             /\ mImage = [width |-> 1, height |-> 1, image_format |-> None,
                          has_transparency |-> None, file_size |-> None, exif |-> None]
             /\ mResults = <<>>
             /\ mPc = "idle"

MatchInit == /\ mCond \in MatchConds
             /\ mImage \in MatchImages
             /\ mResults = <<>>
             /\ mPc = "ready"

\* ProfileConditions.matches: builds the list and returns all(conditions)
Matches ==
    /\ mPc = "ready"
    /\ mResults' = ConditionList(mCond, mImage.width, mImage.height, mImage.image_format,
                                 mImage.has_transparency, mImage.file_size, mImage.exif)
    /\ mPc' = "done"
    /\ UNCHANGED <<mCond, mImage>>

MatchReturn == All(mResults)

-----------------------------------------------------------------------------
(* compression_profiles.py : CompressionProfile, save_profiles,             *)
(* load_profiles, select_profile                                            *)

CompressionProfile(name, quality, max_largest, max_smallest, fmt, jpeg, webp, avif, cond) ==
    [name |-> name, quality |-> quality,
     max_largest_side |-> max_largest, max_smallest_side |-> max_smallest,
     output_format |-> fmt,
     jpeg_params |-> jpeg, webp_params |-> webp, avif_params |-> avif,
     conditions |-> cond]

(* json.dumps / json.loads on scalars.  Python scalars are the tokens       *)
(* "True", "False", NoneVal, digits and plain text; JSON scalars are the    *)
(* tokens true, false, null, digits and quoted text.                        *)
PyScalars   == {"True", "False", NoneVal, "0", "10", "x", "y", "4:2:0"}
JsonScalar(v) ==
    CASE v = "True"  -> "true"
      [] v = "False" -> "false"
      [] v = NoneVal -> "null"
      [] v = "0"     -> "0"
      [] v = "10"    -> "10"
      [] v = "x"     -> "\"x\""
      [] v = "y"     -> "\"y\""
      [] v = "4:2:0" -> "\"4:2:0\""
PyScalar(j) ==
    CASE j = "true"  -> "True"
      [] j = "false" -> "False"
      [] j = "null"  -> NoneVal
      [] j = "0"     -> "0"
      [] j = "10"    -> "10"
      [] j = "\"x\"" -> "x"
      [] j = "\"y\"" -> "y"
      [] j = "\"4:2:0\"" -> "4:2:0"

JsonObject(d) == {<<kv[1], JsonScalar(kv[2])>> : kv \in d}
PyDict(o)     == {<<kv[1], PyScalar(kv[2])>> : kv \in o}

\* JSON values of the optional fields: `kind` is the JSON type, null for None
JNum(opt)  == IF opt = None THEN [kind |-> "null", num |-> 0]
              ELSE [kind |-> "number", num |-> CHOOSE n \in opt : TRUE]
JStr(opt)  == IF opt = None THEN [kind |-> "null", str |-> ""]
              ELSE [kind |-> "string", str |-> CHOOSE x \in opt : TRUE]
JBool(opt) == IF opt = None THEN "null" ELSE IF opt = Some(TRUE) THEN "true" ELSE "false"
JList(opt) == IF opt = None THEN [kind |-> "null", items |-> {}]
              ELSE [kind |-> "array", items |-> CHOOSE x \in opt : TRUE]
JDict(opt) == IF opt = None THEN [kind |-> "null", members |-> {}]
              ELSE [kind |-> "object", members |-> JsonObject(CHOOSE x \in opt : TRUE)]
\* asdict() turns a NumericCondition into {"op": ..., "value": ...}
JCond(opt) == IF opt = None THEN [kind |-> "null", op |-> "", value |-> 0]
              ELSE LET nc == CHOOSE x \in opt : TRUE
                   IN  [kind |-> "object", op |-> nc.op, value |-> nc.value]

\* asdict(profile.conditions) as JSON
ConditionsToJson(c) ==
    [smallest_side |-> JCond(c.smallest_side), largest_side |-> JCond(c.largest_side),
     pixel_count |-> JCond(c.pixel_count), aspect_ratio |-> JCond(c.aspect_ratio),
     orientation |-> JStr(c.orientation), input_formats |-> JList(c.input_formats),
     requires_transparency |-> JBool(c.requires_transparency),
     file_size |-> JCond(c.file_size), required_exif |-> JDict(c.required_exif)]

\* asdict(profile) as JSON
ProfileToJson(p) ==
    [name |-> p.name, quality |-> p.quality,
     max_largest_side |-> JNum(p.max_largest_side),
     max_smallest_side |-> JNum(p.max_smallest_side),
     output_format |-> p.output_format,
     jpeg_params |-> JsonObject(p.jpeg_params),
     webp_params |-> JsonObject(p.webp_params),
     avif_params |-> JsonObject(p.avif_params),
     conditions |-> ConditionsToJson(p.conditions)]

\* save_profiles: data = [asdict(profile) for profile in profiles]; json.dumps
save_profiles(profs) == [i \in 1..Len(profs) |-> ProfileToJson(profs[i])]

\* data.get(key) of a decoded JSON value
GetNum(j)  == IF j.kind = "null" THEN None ELSE Some(j.num)
GetStr(j)  == IF j.kind = "null" THEN None ELSE Some(j.str)
GetBool(j) == IF j = "null" THEN None ELSE Some(j = "true")
GetList(j) == IF j.kind = "null" THEN None ELSE Some(j.items)
GetDict(j) == IF j.kind = "null" THEN None ELSE Some(PyDict(j.members))

\* from_dict._nc: NumericCondition(**val) if isinstance(val, dict) else None
_nc(j) == IF j.kind = "object" THEN Some(NumericCondition(j.op, j.value)) ELSE None

from_dict_NoFileSize(data) ==
    [smallest_side |-> _nc(data.smallest_side), largest_side |-> _nc(data.largest_side),
     pixel_count |-> _nc(data.pixel_count), aspect_ratio |-> _nc(data.aspect_ratio),
     orientation |-> GetStr(data.orientation),
     input_formats |-> GetList(data.input_formats),
     requires_transparency |-> GetBool(data.requires_transparency),
     file_size |-> None,
     required_exif |-> GetDict(data.required_exif)]

\* ProfileConditions.from_dict
from_dict(data) ==
    [smallest_side |-> _nc(data.smallest_side), largest_side |-> _nc(data.largest_side),
     pixel_count |-> _nc(data.pixel_count), aspect_ratio |-> _nc(data.aspect_ratio),
     orientation |-> GetStr(data.orientation),
     input_formats |-> GetList(data.input_formats),
     requires_transparency |-> GetBool(data.requires_transparency),
     file_size |-> _nc(data.file_size),
     required_exif |-> GetDict(data.required_exif)]

\* the body of the loop of load_profiles
LoadItem(item) ==
    CompressionProfile(item.name, item.quality,
                       GetNum(item.max_largest_side), GetNum(item.max_smallest_side),
                       item.output_format,
                       PyDict(item.jpeg_params), PyDict(item.webp_params),
                       PyDict(item.avif_params),
                       from_dict(item.conditions))

\* load_profiles on an existing file
load_profiles(raw) == [i \in 1..Len(raw) |-> LoadItem(raw[i])]

\* What select_profile reads from an opened image.
ImageProperties(img) ==
    [width |-> img.width, height |-> img.height,
     \* (img.format or "").upper()
     image_format |-> IF img.format = None THEN Some("")
                      ELSE Some(upper(CHOOSE f \in img.format : TRUE)),
     \* "A" in img.getbands() or "transparency" in img.info
     has_transparency |-> Some(img.alpha_band \/ img.transparency_info),
     \* path.stat().st_size for a path, None for an Image object
     file_size |-> img.file_size,
     exif |-> Some(img.exif)]

RECURSIVE ScanForward(_, _, _)
ScanForward(props, profs, i) ==
    IF i > Len(profs) THEN 0
    ELSE IF matches(profs[i].conditions, props) THEN i
    ELSE ScanForward(props, profs, i + 1)

select_profile_Forward(img, profs) == ScanForward(ImageProperties(img), profs, 1)

\* for profile in reversed(profiles): if profile.conditions.matches(...): return profile
RECURSIVE ScanReversed(_, _, _)
ScanReversed(props, profs, i) ==
    IF i = 0 THEN 0
    ELSE IF matches(profs[i].conditions, props) THEN i
    ELSE ScanReversed(props, profs, i - 1)

\* select_profile on a readable image: the index of the returned profile, 0 for None
select_profile(img, profs) == ScanReversed(ImageProperties(img), profs, Len(profs))

-----------------------------------------------------------------------------
(* Inputs of save_profiles / load_profiles / select_profile                 *)

SmallestAtLeast2 == [AllUnset EXCEPT !.smallest_side = Some(NumericCondition(">=", 2))]

ProfilePool ==
    { CompressionProfile("default", 75, None, None, "JPEG", {}, {}, {}, AllUnset),
      CompressionProfile("middle", 75, None, None, "JPEG", {}, {}, {}, SmallestAtLeast2),
      CompressionProfile("bottom", 75, None, None, "JPEG", {}, {}, {}, SmallestAtLeast2),
      CompressionProfile("portrait_png", 90, Some(2), None, "WEBP",
                         {}, {<<"lossless", "True">>, <<"method", "10">>}, {},
                         [AllUnset EXCEPT !.orientation = Some("portrait"),
                                          !.input_formats = Some({"png"}),
                                          !.requires_transparency = Some(TRUE)]),
      CompressionProfile("tagged", 10, None, Some(1), "AVIF",
                         {<<"progressive", "False">>, <<"smooth", "0">>}, {},
                         {<<"subsampling", "4:2:0">>, <<"codec", NoneVal>>},
                         [AllUnset EXCEPT !.file_size = Some(NumericCondition("<", 2)),
                                          !.aspect_ratio = Some(NumericCondition("<=", 1)),
                                          !.required_exif = Some({<<"Make", "x">>})]) }

ProfileLists == UNION {[1..n -> ProfilePool] : n \in 1..MaxProfiles}

SelectImages ==
    [width : 1..MaxSide, height : 1..MaxSide,
     format : {None, Some("png")},
     alpha_band : BOOLEAN, transparency_info : {FALSE},
     file_size : {None, Some(1)},
     exif : {{}, {<<"Make", "x">>}}]

SelectIdle == /\ profiles = <<>>
              /\ image = [width |-> 1, height |-> 1, format |-> None, alpha_band |-> FALSE,
                          transparency_info |-> FALSE, file_size |-> None, exif |-> {}]
              /\ selected = 0
              /\ profileFile = <<>>
              /\ loaded = <<>>
              /\ selectedLoaded = 0
              /\ sPc = "idle"

SelectInit == /\ profiles \in ProfileLists
              /\ image \in SelectImages
              /\ selected = 0
              /\ profileFile = <<>>
              /\ loaded = <<>>
              /\ selectedLoaded = 0
              /\ sPc = "ready"

\* select_profile(image, profiles)
SelectProfile ==
    /\ sPc = "ready"
    /\ selected' = select_profile(image, profiles)
    /\ sPc' = "selected"
    /\ UNCHANGED <<profiles, image, profileFile, loaded, selectedLoaded>>

\* save_profiles(profiles, file_path)
SaveProfiles ==
    /\ sPc = "selected"
    /\ profileFile' = save_profiles(profiles)
    /\ sPc' = "saved"
    /\ UNCHANGED <<profiles, image, selected, loaded, selectedLoaded>>

\* load_profiles(file_path)
LoadProfiles ==
    /\ sPc = "saved"
    /\ loaded' = load_profiles(profileFile)
    /\ sPc' = "loaded"
    /\ UNCHANGED <<profiles, image, selected, profileFile, selectedLoaded>>

\* select_profile(image, loaded)
SelectLoaded ==
    /\ sPc = "loaded"
    /\ selectedLoaded' = select_profile(image, loaded)
    /\ sPc' = "done"
    /\ UNCHANGED <<profiles, image, selected, profileFile, loaded>>

-----------------------------------------------------------------------------
(* image_compression.py : the resize planning of compress_image             *)

IsPowerOfTwo(n) == n \in {1, 2, 4, 8, 16, 32, 64}

RECURSIVE Gcd(_, _)
Gcd(a, b) == IF b = 0 THEN a ELSE Gcd(b, a % b)

(* int(side * scale_factor) with scale_factor = limit / divisor, both in     *)
(* IEEE double arithmetic.  The exact product is side*limit/divisor.  When   *)
(* it is no integer it lies at least 1/divisor away from one and int() is    *)
(* its floor.  When it is an integer k and limit/divisor is not a binary     *)
(* fraction, the rounded product may fall just below k (49 * (1/49) < 1),    *)
(* so int() yields k or k - 1.                                              *)
ScaledSide(side, limit, divisor) ==
    LET q     == (side * limit) \div divisor
        exact == (side * limit) % divisor = 0
        binary == IsPowerOfTwo(divisor \div Gcd(limit, divisor))
    IN  IF exact /\ ~binary /\ q > 0 THEN {q, q - 1} ELSE {q}

\* lines 108-112: the pass for max_largest_side
LargestPass(w, h, max_largest_side) ==
    IF max_largest_side # None /\ \E m \in max_largest_side : Max2(w, h) > m
    THEN LET m == CHOOSE x \in max_largest_side : TRUE
         IN  {[w |-> nw, h |-> nh] : nw \in ScaledSide(w, m, Max2(w, h)),
                                     nh \in ScaledSide(h, m, Max2(w, h))}
    ELSE {[w |-> w, h |-> h]}

SmallestPass_Skipped(w, h, cur, max_smallest_side) == {cur}

\* lines 114-120: the pass for max_smallest_side, on the dimensions `cur`
\* the first pass produced
SmallestPass(w, h, cur, max_smallest_side) ==
    IF max_smallest_side # None /\ \E m \in max_smallest_side : Min2(w, h) > m
    THEN LET m == CHOOSE x \in max_smallest_side : TRUE
             current_smallest == Min2(cur.w, cur.h)
         IN  IF current_smallest > m
             THEN {[w |-> nw, h |-> nh] : nw \in ScaledSide(cur.w, m, current_smallest),
                                         nh \in ScaledSide(cur.h, m, current_smallest)}
             ELSE {cur}
    ELSE {cur}

ResizeIdle == /\ rImg = [w |-> 1, h |-> 1]
              /\ rLimits = [largest |-> None, smallest |-> None]
              /\ rNew = [w |-> 1, h |-> 1]
              /\ rPc = "idle"

Limits == {None} \cup {Some(m) : m \in 1..MaxDim}

ResizeInit == /\ rImg \in [w : 1..MaxDim, h : 1..MaxDim]
              /\ rLimits \in [largest : Limits, smallest : Limits]
              /\ rNew = rImg
              /\ rPc = "ready"

\* compress_image, lines 100-120: new_width, new_height
PlanResize ==
    /\ rPc = "ready"
    /\ \E first \in LargestPass(rImg.w, rImg.h, rLimits.largest) :
         \E second \in SmallestPass(rImg.w, rImg.h, first, rLimits.smallest) :
             rNew' = second
    /\ rPc' = "planned"
    /\ UNCHANGED <<rImg, rLimits>>

-----------------------------------------------------------------------------
(* image_compression.py : ImageCompressor.process_directory                 *)
(*                                                                         *)
(* A file is [dir, stem, ext]: dir the directories below the root, stem the *)
(* name without extension as its "_"-separated parts (<<"x", 1>> is x_1),   *)
(* so that f"{base_name}_{counter}" is Append(stem, counter).               *)

File(dir, stem, ext) == [dir |-> dir, stem |-> stem, ext |-> ext]

SUPPORTED_EXTENSIONS ==
    {".jpg", ".jpeg", ".png", ".bmp", ".tiff", ".tif", ".webp", ".avif", ".heic",
     ".heif", ".gif", ".ico", ".ppm", ".pgm", ".pbm"}

\* str.lower() on the extensions of the model
lower(ext) ==
    CASE ext = ".PNG" -> ".png"
      [] ext = ".JPG" -> ".jpg"
      [] OTHER        -> ext

\* file_path.suffix.lower() in SUPPORTED_EXTENSIONS
IsSupported(f) == lower(f.ext) \in SUPPORTED_EXTENSIONS

DefaultNumWorkers == 1      \* __init__: num_workers: int = 1

\* ImageCompressor._get_extension_according_format
_get_extension_according_format(fmt) ==
    IF fmt = "WEBP" THEN ".webp"
    ELSE IF fmt = "AVIF" THEN ".avif"
    ELSE ".jpg"

\* the files the input trees of the model are drawn from
FileUniverse ==
    { File(<<>>, <<"x">>, ".jpg"), File(<<>>, <<"x">>, ".png"),
      File(<<>>, <<"x", 1>>, ".jpg"), File(<<>>, <<"x">>, ".txt"),
      File(<<"a">>, <<"x">>, ".jpg"), File(<<"a">>, <<"x">>, ".txt"),
      File(<<"a", "b">>, <<"x">>, ".PNG") }

\* every readable image of the model decodes to a 2x1 opaque picture
FileImage(f) ==
    [width |-> 2, height |-> 1, format |-> Some(IF lower(f.ext) = ".png" THEN "PNG" ELSE "JPEG"),
     alpha_band |-> FALSE, transparency_info |-> FALSE, file_size |-> Some(1), exif |-> {}]

Paths(files) == {e.path : e \in files}

\* writing `path` with the content of src, then copy_times_from_src(src, path):
\* replaces what was there; `times` is the file the timestamps come from
WriteFile(files, path, src) ==
    {e \in files : e.path # path} \cup {[path |-> path, src |-> src, times |-> src]}

NameTaken_ExistsOnly(path, used, files) == path \in Paths(files)

\* output_file in used_names or output_file.exists()
NameTaken(path, used, files) == path \in used \/ path \in Paths(files)

\* the while loop of lines 327-331 / 341-344: the plain name, else the first
\* of name_1, name_2, ... that is not taken
RECURSIVE Suffixed(_, _, _, _, _)
Suffixed(stem, ext, counter, used, files) ==
    LET candidate == File(<<>>, Append(stem, counter), ext)
    IN  IF NameTaken(candidate, used, files)
        THEN Suffixed(stem, ext, counter + 1, used, files)
        ELSE candidate

FlatName(stem, ext, used, files) ==
    IF NameTaken(File(<<>>, stem, ext), used, files)
    THEN Suffixed(stem, ext, 1, used, files)
    ELSE File(<<>>, stem, ext)

\* lines 320-331: the output file of an image
ImageOutput(f, preserve, fmt, used, files) ==
    IF preserve
    THEN File(<<>>, f.stem, _get_extension_according_format(fmt))
    ELSE FlatName(f.stem, _get_extension_according_format(fmt), used, files)

\* lines 336-344: the output file of a file that is no image
CopyOutput(f, preserve, used, files) ==
    IF preserve THEN File(f.dir, f.stem, f.ext)
    ELSE FlatName(f.stem, f.ext, used, files)

\* ImageCompressor.__init__, lines 52-62: the fields process_directory clones
ImageCompressor(quality, max_largest, max_smallest) ==
    [quality |-> Max2(1, Min2(100, quality)),
     max_largest_side |-> max_largest, max_smallest_side |-> max_smallest,
     jpeg_params |-> {}, webp_params |-> {}, avif_params |-> {}]

\* the constructor's default arguments, lines 34-36
DefaultCompressor == ImageCompressor(85, Some(1920), Some(1080))

_clone_with_profile_Defaults(comp) == DefaultCompressor

\* _clone_with_profile(None), lines 296-309: a new ImageCompressor built from
\* self's fields, then the three set_*_parameters calls
_clone_with_profile(comp) ==
    [ImageCompressor(comp.quality, comp.max_largest_side, comp.max_smallest_side)
       EXCEPT !.jpeg_params = comp.jpeg_params,
              !.webp_params = comp.webp_params,
              !.avif_params = comp.avif_params]

\* compress_image: None when the file cannot be opened, else the saved path
compress_image(task) ==
    IF task.src \in unreadable THEN None ELSE Some(task.dst)

DirIdle ==
    /\ input_root = {} /\ unreadable = {}
    /\ compressor = DefaultCompressor
    /\ preserve_structure = TRUE /\ output_format = "JPEG"
    /\ dirProfiles = <<>> /\ num_workers = None
    /\ outputBefore = [exists |-> FALSE, files |-> {}]
    /\ output_root = [exists |-> FALSE, files |-> {}]
    /\ overwritten = {}
    /\ total_files = 0 /\ processed_files = 0 /\ compressed_files = 0
    /\ compressed_paths = <<>> /\ failed_files = <<>>
    /\ worker_count = 0 /\ tasks = <<>> /\ used_names = {} /\ toVisit = {}
    /\ futures = <<>> /\ saved = <<>> /\ error = ""
    /\ progress = <<>> /\ report = None /\ dPc = "idle"

InputTrees == {t \in SUBSET FileUniverse : Cardinality(t) \in 1..MaxFiles}

DirProfileLists ==
    { <<>>,
      <<CompressionProfile("default", 75, None, None, "JPEG", {}, {}, {}, AllUnset)>>,
      <<CompressionProfile("middle", 75, None, None, "JPEG", {}, {}, {}, SmallestAtLeast2)>> }

DirInit ==
    /\ input_root \in InputTrees
    /\ compressor = DefaultCompressor
    /\ unreadable \in {u \in SUBSET input_root :
                          Cardinality(u) <= 1 /\ \A f \in u : IsSupported(f)}
    /\ preserve_structure \in BOOLEAN
    /\ output_format = "JPEG"
    /\ dirProfiles \in DirProfileLists
    /\ num_workers \in {None} \cup {Some(n) : n \in 1..MaxWorkers}
    /\ outputBefore \in
         { [exists |-> FALSE, files |-> {}],
           [exists |-> TRUE, files |-> {}],
           [exists |-> TRUE,
            files |-> {[path |-> File(<<>>, <<"x">>, ".jpg"),
                        src |-> File(<<"old">>, <<"x">>, ".jpg"),
                        times |-> File(<<"old">>, <<"x">>, ".jpg")]}] }
    /\ output_root = outputBefore
    /\ overwritten = {}
    /\ total_files = 0 /\ processed_files = 0 /\ compressed_files = 0
    /\ compressed_paths = <<>> /\ failed_files = <<>>
    /\ worker_count = 0 /\ tasks = <<>> /\ used_names = {} /\ toVisit = {}
    /\ futures = <<>> /\ saved = <<>> /\ error = ""
    /\ progress = <<>> /\ report = None /\ dPc = "start"

\* compressors a caller may construct: the defaults, and two with other
\* qualities (150 is clamped by __init__), limits and format parameters
Compressors ==
    { DefaultCompressor,
      [ImageCompressor(40, None, Some(1)) EXCEPT !.jpeg_params = {<<"progressive", "True">>}],
      ImageCompressor(150, Some(2), None) }

\* profile lists in which every profile carries conditions
ConditionalProfileLists ==
    { <<CompressionProfile("middle", 75, None, None, "JPEG", {}, {}, {}, SmallestAtLeast2)>>,
      <<CompressionProfile("middle", 75, None, None, "JPEG", {}, {}, {}, SmallestAtLeast2),
        CompressionProfile("png_only", 50, Some(1), None, "WEBP", {}, {}, {},
                           [AllUnset EXCEPT !.input_formats = Some({"png"})])>> }

\* process_directory of every compressor of the model on small readable trees
DirSettingsInit ==
    /\ input_root \in {t \in InputTrees : Cardinality(t) < MaxFiles}
    /\ compressor \in Compressors
    /\ unreadable = {}
    /\ preserve_structure \in BOOLEAN
    /\ output_format \in {"JPEG", "WEBP"}
    /\ dirProfiles \in ConditionalProfileLists
    /\ num_workers \in {None} \cup {Some(n) : n \in 1..MaxWorkers}
    /\ outputBefore = [exists |-> FALSE, files |-> {}]
    /\ output_root = outputBefore
    /\ overwritten = {}
    /\ total_files = 0 /\ processed_files = 0 /\ compressed_files = 0
    /\ compressed_paths = <<>> /\ failed_files = <<>>
    /\ worker_count = 0 /\ tasks = <<>> /\ used_names = {} /\ toVisit = {}
    /\ futures = <<>> /\ saved = <<>> /\ error = ""
    /\ progress = <<>> /\ report = None /\ dPc = "start"

Raise(exc) ==
    /\ error' = exc
    /\ dPc' = "raised"

Begin_ExistOk ==
    /\ dPc = "start"
    /\ total_files' = Cardinality({f \in input_root : IsSupported(f)})
    /\ progress' = <<<<0, total_files'>>>>
    /\ output_root' = [output_root EXCEPT !.exists = TRUE]
    /\ worker_count' = Max2(1, IF num_workers = None \/ num_workers = Some(0)
                               THEN DefaultNumWorkers
                               ELSE CHOOSE n \in num_workers : TRUE)
    /\ toVisit' = input_root
    /\ dPc' = "planning"
    /\ UNCHANGED <<dirInputs, processed_files, compressed_files, compressed_paths,
                   failed_files, overwritten, tasks, used_names, futures, saved, error,
                   report>>

\* lines 277-294: count, reject an existing output root, create it
Begin ==
    /\ dPc = "start"
    /\ total_files' = Cardinality({f \in input_root : IsSupported(f)})
    /\ progress' = <<<<0, total_files'>>>>
    /\ IF output_root.exists
       THEN /\ Raise("FileExistsError")
            /\ UNCHANGED <<output_root, worker_count, toVisit>>
       ELSE /\ output_root' = [exists |-> TRUE, files |-> {}]
            \* max(1, num_workers or self.num_workers)
            /\ worker_count' = Max2(1, IF num_workers = None \/ num_workers = Some(0)
                                       THEN DefaultNumWorkers
                                       ELSE CHOOSE n \in num_workers : TRUE)
            /\ toVisit' = input_root
            /\ dPc' = "planning"
            /\ UNCHANGED error
    /\ UNCHANGED <<dirInputs, processed_files, compressed_files, compressed_paths,
                   failed_files, overwritten, tasks, used_names, futures, saved, report>>

\* lines 316-334: one supported file of the rglob loop
PlanImage(f) ==
    IF dirProfiles # <<>> /\ f \in unreadable
    THEN \* select_profile: Image.open(path) raises, nothing catches it
         /\ Raise("UnidentifiedImageError")
         /\ UNCHANGED <<tasks, used_names, toVisit>>
    ELSE IF dirProfiles # <<>> /\ select_profile(FileImage(f), dirProfiles) > 0
    THEN \* _clone_with_profile -> apply_profile reads profile.preserve_structure,
         \* which CompressionProfile (slots=True) does not have
         /\ Raise("AttributeError")
         /\ UNCHANGED <<tasks, used_names, toVisit>>
    ELSE LET output_file == ImageOutput(f, preserve_structure, output_format,
                                        used_names, output_root.files)
         IN  /\ used_names' = used_names \cup {output_file}
             /\ tasks' = Append(tasks, [comp |-> _clone_with_profile(compressor),
                                         src |-> f, dst |-> output_file])
             /\ toVisit' = toVisit \ {f}
             /\ UNCHANGED <<error, dPc>>

\* lines 335-350: one file that is no image: copied with its timestamps
CopyFile(f) ==
    LET output_file == CopyOutput(f, preserve_structure, used_names, output_root.files)
    IN  /\ used_names' = IF preserve_structure THEN used_names
                         ELSE used_names \cup {output_file}
        /\ output_root' = [output_root EXCEPT !.files = WriteFile(@, output_file, f)]
        /\ overwritten' = overwritten \cup ({output_file} \cap Paths(output_root.files))
        /\ toVisit' = toVisit \ {f}
        /\ UNCHANGED <<tasks, error, dPc>>

\* one iteration of `for file_path in input_root.rglob("*")`, in any order
PlanFile ==
    /\ dPc = "planning"
    /\ \E f \in toVisit :
         IF IsSupported(f)
         THEN PlanImage(f) /\ UNCHANGED <<output_root, overwritten>>
         ELSE CopyFile(f)
    /\ UNCHANGED <<dirInputs, dirCounts, worker_count, futures, saved, progress, report>>

\* line 358: the loop is over; submit every task, or run them in line
StartExecution ==
    /\ dPc = "planning"
    /\ toVisit = {}
    /\ IF worker_count > 1
       THEN /\ dPc' = "parallel"
            /\ futures' = [i \in 1..Len(tasks) |-> "pending"]
            /\ saved' = [i \in 1..Len(tasks) |-> None]
       ELSE /\ dPc' = "sequential"
            /\ UNCHANGED <<futures, saved>>
    /\ UNCHANGED <<dirInputs, dirCounts, output_root, overwritten, worker_count, tasks,
                   used_names, toVisit, error, progress, report>>

Record_ProgressOnSuccess(task, result) ==
    /\ IF result # None
       THEN /\ compressed_files' = compressed_files + 1
            /\ compressed_paths' = Append(compressed_paths, CHOOSE x \in result : TRUE)
            /\ progress' = Append(progress, <<processed_files + 1, total_files>>)
            /\ UNCHANGED failed_files
       ELSE /\ failed_files' = Append(failed_files, task.src)
            /\ UNCHANGED <<compressed_files, compressed_paths, progress>>
    /\ processed_files' = processed_files + 1
    /\ UNCHANGED total_files

Record_CountAll(task, result) ==
    /\ IF result # None
       THEN /\ compressed_paths' = Append(compressed_paths, CHOOSE x \in result : TRUE)
            /\ UNCHANGED failed_files
       ELSE /\ failed_files' = Append(failed_files, task.src)
            /\ UNCHANGED compressed_paths
    /\ compressed_files' = compressed_files + 1
    /\ processed_files' = processed_files + 1
    /\ progress' = Append(progress, <<processed_files', total_files>>)
    /\ UNCHANGED total_files

\* the bookkeeping after a task: lines 363-372 and 376-386
Record(task, result) ==
    /\ IF result # None
       THEN /\ compressed_files' = compressed_files + 1
            /\ compressed_paths' = Append(compressed_paths, CHOOSE x \in result : TRUE)
            /\ UNCHANGED failed_files
       ELSE /\ failed_files' = Append(failed_files, task.src)
            /\ UNCHANGED <<compressed_files, compressed_paths>>
    /\ processed_files' = processed_files + 1
    /\ progress' = Append(progress, <<processed_files', total_files>>)
    /\ UNCHANGED total_files

\* compress_image followed by copy_times_from_src on success
RunTask(task) ==
    IF compress_image(task) # None
    THEN /\ output_root' = [output_root EXCEPT !.files = WriteFile(@, task.dst, task.src)]
         /\ overwritten' = overwritten \cup ({task.dst} \cap Paths(output_root.files))
    ELSE UNCHANGED <<output_root, overwritten>>

\* lines 374-386: one iteration of the sequential loop
SeqCompress ==
    /\ dPc = "sequential"
    /\ processed_files < Len(tasks)
    /\ LET task == tasks[processed_files + 1]
       IN  /\ RunTask(task)
           /\ Record(task, compress_image(task))
    /\ UNCHANGED <<dirInputs, worker_count, tasks, used_names, toVisit, futures, saved,
                   error, report, dPc>>

\* a pool thread takes the oldest queued work item
WorkerTake ==
    /\ dPc = "parallel"
    /\ Cardinality({i \in 1..Len(tasks) : futures[i] = "running"}) < worker_count
    /\ \E i \in 1..Len(tasks) :
         /\ futures[i] = "pending"
         /\ \A j \in 1..(i - 1) : futures[j] # "pending"
         /\ futures' = [futures EXCEPT ![i] = "running"]
    /\ UNCHANGED <<dirInputs, dirCounts, output_root, overwritten, worker_count, tasks,
                   used_names, toVisit, saved, error, progress, report, dPc>>

WorkerCompress_Records ==
    /\ dPc = "parallel"
    /\ \E i \in 1..Len(tasks) :
         /\ futures[i] = "running"
         /\ RunTask(tasks[i])
         /\ Record(tasks[i], compress_image(tasks[i]))
         /\ saved' = [saved EXCEPT ![i] = compress_image(tasks[i])]
         /\ futures' = [futures EXCEPT ![i] = "collected"]
    /\ UNCHANGED <<dirInputs, worker_count, tasks, used_names, toVisit,
                   error, report, dPc>>

\* lines 352-356: _compress_task in a pool thread
WorkerCompress ==
    /\ dPc = "parallel"
    /\ \E i \in 1..Len(tasks) :
         /\ futures[i] = "running"
         /\ RunTask(tasks[i])
         /\ saved' = [saved EXCEPT ![i] = compress_image(tasks[i])]
         /\ futures' = [futures EXCEPT ![i] = "finished"]
    /\ UNCHANGED <<dirInputs, dirCounts, worker_count, tasks, used_names, toVisit,
                   error, progress, report, dPc>>

Collect_SuccessOnly ==
    /\ dPc = "parallel"
    /\ \E i \in 1..Len(tasks) :
         /\ futures[i] = "finished"
         /\ IF saved[i] # None
            THEN Record(tasks[i], saved[i])
            ELSE /\ processed_files' = processed_files + 1
                 /\ progress' = Append(progress, <<processed_files', total_files>>)
                 /\ UNCHANGED <<total_files, compressed_files, compressed_paths,
                                failed_files>>
         /\ futures' = [futures EXCEPT ![i] = "collected"]
    /\ UNCHANGED <<dirInputs, output_root, overwritten, worker_count, tasks, used_names,
                   toVisit, saved, error, report, dPc>>

\* lines 361-372: as_completed yields a finished future to the driver thread
Collect ==
    /\ dPc = "parallel"
    /\ \E i \in 1..Len(tasks) :
         /\ futures[i] = "finished"
         /\ Record(tasks[i], saved[i])
         /\ futures' = [futures EXCEPT ![i] = "collected"]
    /\ UNCHANGED <<dirInputs, output_root, overwritten, worker_count, tasks, used_names,
                   toVisit, saved, error, report, dPc>>

Return_Early ==
    /\ \/ dPc = "sequential" /\ processed_files = Len(tasks)
       \/ dPc = "parallel"
    /\ dPc' = "returned"
    /\ UNCHANGED <<dirInputs, dirCounts, output_root, overwritten, worker_count, tasks,
                   used_names, toVisit, futures, saved, error, progress, report>>

\* lines 388-389: every task is accounted for, the tuple is returned
Return ==
    /\ \/ dPc = "sequential" /\ processed_files = Len(tasks)
       \/ dPc = "parallel" /\ \A i \in 1..Len(tasks) : futures[i] = "collected"
    /\ dPc' = "returned"
    /\ UNCHANGED <<dirInputs, dirCounts, output_root, overwritten, worker_count, tasks,
                   used_names, toVisit, futures, saved, error, progress, report>>

\* str(path): the path as text, its components in order
PathStr(f) == <<f.dir, f.stem, f.ext>>

\* save_compression_settings(output_dir, {}, [], stats, failed_files) on what
\* process_directory returned: the content of compression_settings.json
SaveCompressionSettings ==
    /\ dPc = "returned"
    /\ report = None
    /\ report' = Some([image_pairs |-> <<>>,
                       total_pairs |-> 0,
                       \* [str(path) for path in failed_files]: JSON strings
                       failed_files |-> [i \in 1..Len(failed_files) |->
                                            [kind |-> "string",
                                             str |-> PathStr(failed_files[i])]],
                       stats |-> [total_files |-> total_files,
                                  compressed_files |-> compressed_files,
                                  failed_files_count |-> Len(failed_files)]])
    /\ UNCHANGED <<dirInputs, dirCounts, output_root, overwritten, worker_count, tasks,
                   used_names, toVisit, futures, saved, error, progress, dPc>>

-----------------------------------------------------------------------------
(* main.py : CompressionWorker.run, CompressionWorker.stop and the slots of  *)
(* MainWindow connected to the worker                                       *)

\* the parameters process_directory declares, lines 259-266
ProcessDirectoryParameters ==
    {"input_root", "output_root", "profiles", "progress_callback", "num_workers"}

\* the keyword arguments of the call in CompressionWorker.run, lines 96-104
RunKeywords ==
    {"progress_callback", "status_callback", "log_callback", "num_workers", "stop_event"}

WorkerIdle ==
    /\ stop_event = FALSE /\ cancelled = FALSE /\ signals = <<>>
    /\ status_label = "" /\ wPc = "idle"

\* CompressionWorker.__init__ and start(): lines 64-80, 814-835
WorkerInit ==
    /\ stop_event = FALSE /\ cancelled = FALSE /\ signals = <<>>
    /\ status_label = "" /\ wPc = "created"

\* run, line 85: status_updated.emit("Starting compression..."), shown by
\* MainWindow.update_status
WorkerStart ==
    /\ wPc = "created"
    /\ signals' = Append(signals, "status_updated")
    /\ status_label' = "Starting compression..."
    /\ wPc' = "calling"
    /\ UNCHANGED <<stop_event, cancelled, dirVars>>

\* run, lines 89-104: the call names parameters process_directory does not
\* declare, so binding the arguments raises TypeError before its body runs
WorkerCall ==
    /\ wPc = "calling"
    /\ dPc = "start"
    /\ ~(RunKeywords \subseteq ProcessDirectoryParameters)
    /\ Raise("TypeError")
    /\ wPc' = "except"
    /\ UNCHANGED <<stop_event, cancelled, signals, status_label>>
    /\ UNCHANGED <<dirInputs, dirCounts, output_root, overwritten, worker_count, tasks,
                   used_names, toVisit, futures, saved, progress, report>>

\* run, lines 149-150: except Exception -> error_occurred.emit(...)
WorkerExcept ==
    /\ wPc = "except"
    /\ signals' = Append(signals, "error_occurred")
    /\ wPc' = "emitted"
    /\ UNCHANGED <<stop_event, cancelled, status_label, dirVars>>

\* MainWindow.compression_error, the slot of error_occurred
CompressionError ==
    /\ wPc = "emitted"
    /\ signals[Len(signals)] = "error_occurred"
    /\ status_label' = "Compression failed"
    /\ wPc' = "handled"
    /\ UNCHANGED <<stop_event, cancelled, signals, dirVars>>

\* MainWindow.start_compression while the worker runs, lines 751-757, and
\* CompressionWorker.stop
Stop ==
    /\ wPc \in {"created", "calling", "except"}
    /\ ~stop_event
    /\ stop_event' = TRUE
    /\ status_label' = "Stopping compression..."
    /\ UNCHANGED <<cancelled, signals, wPc, dirVars>>

-----------------------------------------------------------------------------
(* file_utils.py : format_timedelta                                         *)

\* f"{n}d", f"{n}h", f"{n}m", f"{n}s"
Part(n, unit) == [n |-> n, unit |-> unit]

\* int(delta.total_seconds()) for a non-negative timedelta: the fraction of a
\* second is cut off
total_seconds(d) == d.days * 86400 + d.seconds

format_timedelta_SecondsIfNonZero(d) ==
    LET days    == total_seconds(d) \div 86400
        rem     == total_seconds(d) % 86400
        hours   == rem \div 3600
        minutes == (rem % 3600) \div 60
        seconds == (rem % 3600) % 60
    IN  (IF days # 0 THEN <<Part(days, "d")>> ELSE <<>>)
          \o (IF hours # 0 THEN <<Part(hours, "h")>> ELSE <<>>)
          \o (IF minutes # 0 THEN <<Part(minutes, "m")>> ELSE <<>>)
          \o (IF seconds # 0 THEN <<Part(seconds, "s")>> ELSE <<>>)

\* format_timedelta, lines 12-27: the list `parts` that is joined with " "
format_timedelta(d) ==
    LET days    == total_seconds(d) \div 86400
        rem     == total_seconds(d) % 86400
        hours   == rem \div 3600
        minutes == (rem % 3600) \div 60
        seconds == (rem % 3600) % 60
        dhm     == (IF days # 0 THEN <<Part(days, "d")>> ELSE <<>>)
                     \o (IF hours # 0 THEN <<Part(hours, "h")>> ELSE <<>>)
                     \o (IF minutes # 0 THEN <<Part(minutes, "m")>> ELSE <<>>)
    IN  IF seconds # 0 \/ dhm = <<>> THEN Append(dhm, Part(seconds, "s")) ELSE dhm

TimeIdle ==
    /\ delta = [days |-> 0, seconds |-> 0, microseconds |-> 0]
    /\ parts = <<>> /\ tPc = "idle"

\* the durations of the model: every combination of zero, one and the largest
\* value of each unit, with and without a fraction of a second
Durations ==
    [days : 0..MaxDays,
     seconds : {h * 3600 + m * 60 + sec : h \in {0, 1, 23}, m \in {0, 1, 59},
                                           sec \in {0, 1, 59}},
     microseconds : {0, 999999}]

TimeInit ==
    /\ delta \in Durations
    /\ parts = <<>> /\ tPc = "ready"

FormatTimedelta ==
    /\ tPc = "ready"
    /\ parts' = format_timedelta(delta)
    /\ tPc' = "done"
    /\ UNCHANGED delta

-----------------------------------------------------------------------------
(* image_comparison_viewer.py : thumbnail preloading                        *)

\* The objects a ThumbnailRunnable may hold: "ImagePair" is the class of
\* image_pair.py, "FailingPair" the pair of test_thumbnail_runnable.py and
\* "StubPair" any object whose ensure_thumbnail_cached returns.
PairKinds == {"ImagePair", "FailingPair", "StubPair"}

\* self.pair.ensure_thumbnail_cached(), line 131: ImagePair (image_pair.py,
\* lines 130-153) defines no such method, FailingPair raises RuntimeError
ensure_thumbnail_cached(pair) ==
    CASE pair = "ImagePair"   -> "AttributeError"
      [] pair = "FailingPair" -> "RuntimeError"
      [] OTHER                -> "returned"

ThumbIdle ==
    /\ image_pairs = <<>> /\ runnable = <<>> /\ posted = <<>>
    /\ events = 0 /\ observer = [total |-> 0, done |-> 0]
    /\ tnSignals = <<>> /\ dialog = "none" /\ tnPc = "idle"

ThumbInit ==
    /\ image_pairs \in UNION {[1..n -> PairKinds] : n \in 0..MaxPairs}
    /\ runnable = [i \in DOMAIN image_pairs |-> "none"]
    /\ posted = [i \in DOMAIN image_pairs |-> 0]
    /\ events = 0 /\ observer = [total |-> 0, done |-> 0]
    /\ tnSignals = <<>> /\ dialog = "none" /\ tnPc = "ready"

\* MainWindow._preload_thumbnails, lines 1082-1099, up to dialog.exec()
PreloadThumbnails ==
    /\ tnPc = "ready"
    /\ IF Len(image_pairs) = 0
         THEN /\ tnPc' = "returned"
              /\ UNCHANGED <<runnable, observer, dialog>>
         ELSE /\ observer' = [total |-> Len(image_pairs), done |-> 0]
              /\ runnable' = [i \in DOMAIN image_pairs |-> "queued"]
              /\ dialog' = "open"
              /\ tnPc' = "exec"
    /\ UNCHANGED <<image_pairs, posted, events, tnSignals>>

\* ThumbnailRunnable.run, lines 130-136, on a thread of the pool: an exception
\* of ensure_thumbnail_cached leaves run before invokeMethod is reached
run(i) ==
    /\ runnable[i] = "queued"
    /\ IF ensure_thumbnail_cached(image_pairs[i]) = "returned"
         THEN /\ runnable' = [runnable EXCEPT ![i] = "returned"]
              /\ posted' = [posted EXCEPT ![i] = @ + 1]
              /\ events' = events + 1
         ELSE /\ runnable' = [runnable EXCEPT ![i] = "raised"]
              /\ UNCHANGED <<posted, events>>
    /\ UNCHANGED <<image_pairs, observer, tnSignals, dialog, tnPc>>

RunnableRun == \E i \in DOMAIN runnable : run(i)

\* ThumbnailObserver.report_done, lines 114-119, delivered by the event loop
\* of the GUI thread; `finished` is connected to dialog.accept
report_done ==
    /\ events > 0
    /\ events' = events - 1
    /\ observer' = [observer EXCEPT !.done = @ + 1]
    /\ tnSignals' = tnSignals \o <<[signal |-> "progress", value |-> observer.done + 1]>>
                      \o (IF observer.done + 1 >= observer.total
                            THEN <<[signal |-> "finished", value |-> 0]>> ELSE <<>>)
    /\ dialog' = IF observer.done + 1 >= observer.total THEN "accepted" ELSE dialog
    /\ UNCHANGED <<image_pairs, runnable, posted, tnPc>>

\* dialog.exec() returns once the dialog was accepted, line 1099
DialogExecReturn ==
    /\ tnPc = "exec" /\ dialog = "accepted"
    /\ tnPc' = "returned"
    /\ UNCHANGED <<image_pairs, runnable, posted, events, observer, tnSignals, dialog>>

-----------------------------------------------------------------------------
(* main.py, profile_panel.py : the profile panels of the main window        *)
(* A panel is the part of a ProfilePanel that decides the name and the      *)
(* conditions of its profile: title, allow_conditions, removable, the text  *)
(* of name_edit (<<>> when empty) and the data of the two condition combo   *)
(* boxes; the other condition widgets stay as constructed (unchecked,       *)
(* empty). Names are tuples: <<"Default">>, <<"Profile", n>>, <<"top">>.    *)

\* tr("Default") / tr("Profile {num}").format(num=...), lines 710-712
Title(num) == IF num = 1 THEN <<"Default">> ELSE <<"Profile", num>>

\* ProfilePanel(title, allow_conditions=..., removable=...), lines 88-102
ProfilePanel(title, allow_conditions, removable) ==
    [title |-> title, allow_conditions |-> allow_conditions, removable |-> removable,
     name_edit |-> <<>>, orientation_combo |-> "any", transparency_combo |-> "any"]

\* get_conditions without the test of allow_conditions
get_conditions_Widgets(panel) ==
    [AllUnset EXCEPT
       !.orientation = IF panel.orientation_combo = "any" THEN None
                       ELSE Some(panel.orientation_combo),
       !.requires_transparency =
            CASE panel.transparency_combo = "requires" -> Some(TRUE)
              [] panel.transparency_combo = "no"       -> Some(FALSE)
              [] OTHER                                 -> None]

\* ProfilePanel.get_conditions, lines 514-540
get_conditions(panel) ==
    IF ~panel.allow_conditions THEN AllUnset
    ELSE [AllUnset EXCEPT
            !.orientation = IF panel.orientation_combo = "any" THEN None
                            ELSE Some(panel.orientation_combo),
            !.requires_transparency =
                 CASE panel.transparency_combo = "requires" -> Some(TRUE)
                   [] panel.transparency_combo = "no"       -> Some(FALSE)
                   [] OTHER                                 -> None]

\* ProfilePanel.to_profile, lines 542-555: the name and the conditions of the
\* profile (name=self.name_edit.text() or self.title)
to_profile(panel) ==
    [name |-> IF panel.name_edit # <<>> THEN panel.name_edit ELSE panel.title,
     conditions |-> get_conditions(panel)]

\* ProfilePanel.apply_profile, lines 557-670: name_edit and the two combo boxes
apply_profile_panel(panel, profile) ==
    [panel EXCEPT
       !.name_edit = IF profile.name = "" THEN <<>> ELSE <<profile.name>>,
       !.orientation_combo =
            IF profile.conditions.orientation = None THEN "any"
            ELSE IF \E o \in profile.conditions.orientation :
                       o \in {"any", "landscape", "portrait", "square"}
              THEN CHOOSE o \in profile.conditions.orientation : TRUE
              ELSE panel.orientation_combo,
       !.transparency_combo =
            IF profile.conditions.requires_transparency = Some(TRUE) THEN "requires"
            ELSE IF profile.conditions.requires_transparency = Some(FALSE) THEN "no"
            ELSE "any"]

\* MainWindow.add_profile_panel, lines 708-718; `profile` is None or Some(p)
add_profile_panel(panels, profile) ==
    LET allow_conditions == Len(panels) > 0
        title == IF Len(panels) = 0 THEN Title(1) ELSE Title(Len(panels) + 1)
        panel == ProfilePanel(title, allow_conditions, allow_conditions)
    IN  Append(panels, IF profile = None THEN panel
                       ELSE apply_profile_panel(panel, CHOOSE q \in profile : TRUE))

RECURSIVE AddAll(_, _, _)
\* for profile in profiles: self.add_profile_panel(profile), lines 741-742
AddAll(panels, profs, i) ==
    IF i > Len(profs) THEN panels
    ELSE AddAll(add_profile_panel(panels, Some(profs[i])), profs, i + 1)

\* the profiles a file chosen in load_profiles may hold
PanelProfilePool ==
    { CompressionProfile("top", 75, None, None, "JPEG", {}, {}, {},
                         [AllUnset EXCEPT !.orientation = Some("portrait")]),
      CompressionProfile("alpha", 75, None, None, "JPEG", {}, {}, {},
                         [AllUnset EXCEPT !.requires_transparency = Some(TRUE)]) }

PanelProfileLists == UNION {[1..n -> PanelProfilePool] : n \in 0..MaxPanels}

\* what the user can select in the two combo boxes of an enabled panel
ComboChoices == {<<"any", "any">>, <<"landscape", "any">>, <<"any", "no">>}

PanelIdle == profile_panels = <<>>

\* MainWindow.setup_ui, lines 383-384
PanelInit == profile_panels = add_profile_panel(<<>>, None)

\* the "add profile" button: add_profile_panel()
AddProfilePanel ==
    /\ Len(profile_panels) < MaxPanels
    /\ profile_panels' = add_profile_panel(profile_panels, None)

\* remove_profile_panel, lines 744-747, reached from the remove button that
\* only a removable panel has (profile_panel.py, lines 116-123)
RemoveProfilePanel ==
    \E i \in DOMAIN profile_panels :
        /\ profile_panels[i].removable
        /\ profile_panels' = SubSeq(profile_panels, 1, i - 1)
                               \o SubSeq(profile_panels, i + 1, Len(profile_panels))

\* reset_settings, lines 603-614
ResetSettings ==
    profile_panels' = add_profile_panel(<<>>, None)

\* load_profiles, lines 728-742: an empty or unreadable file changes nothing
LoadProfilesIntoPanels ==
    \E profs \in PanelProfileLists :
        profile_panels' = IF Len(profs) = 0 THEN profile_panels
                          ELSE AddAll(<<>>, profs, 1)

\* the user changes the condition combo boxes of a panel whose conditions
\* box is enabled (profile_panel.py, lines 397-400)
EditConditions ==
    \E i \in DOMAIN profile_panels, c \in ComboChoices :
        /\ profile_panels[i].allow_conditions
        /\ profile_panels' = [profile_panels EXCEPT ![i].orientation_combo = c[1],
                                                    ![i].transparency_combo = c[2]]

\* profiles = [panel.to_profile() for panel in self.profile_panels], line 780
WindowProfiles == [i \in DOMAIN profile_panels |-> to_profile(profile_panels[i])]

-----------------------------------------------------------------------------
(* image_compression.py : ImageCompressor.__init__ and apply_profile        *)

\* quality values a caller or a profile may carry, inside and outside 1..100
Qualities == {-5, 0, 1, 75, 100, 150}

\* the profiles handed to apply_profile
QualityProfiles ==
    {CompressionProfile("p", q, l, None, "JPEG", {}, {}, {}, AllUnset) :
        q \in Qualities, l \in {None, Some(2)}}

QualityIdle ==
    /\ qSelf = DefaultCompressor /\ qRaised = "" /\ handed = None /\ qCalls = 0

\* ImageCompressor(quality=q, max_largest_side=l, max_smallest_side=s)
QualityInit ==
    /\ qSelf \in {ImageCompressor(q, l, s) :
                    q \in Qualities, l \in {None, Some(1920)}, s \in {None, Some(1080)}}
    /\ qRaised = "" /\ handed = None /\ qCalls = 0

\* ImageCompressor.apply_profile, lines 64-73: the first three assignments are
\* made, then `profile.preserve_structure` raises AttributeError because
\* CompressionProfile (compression_profiles.py, lines 102-114, slots=True) has
\* no such field; the format and the format parameters stay as they were
apply_profile(self, profile) ==
    [self EXCEPT !.quality = profile.quality,
                 !.max_largest_side = profile.max_largest_side,
                 !.max_smallest_side = profile.max_smallest_side]

ApplyProfile ==
    \E profile \in QualityProfiles :
        /\ qCalls < MaxApply
        /\ qSelf' = apply_profile(qSelf, profile)
        /\ qRaised' = "AttributeError"
        /\ qCalls' = qCalls + 1
        /\ UNCHANGED handed

\* _save_jpeg_custom / _save_webp_custom / _save_avif_custom: params["quality"]
\* = self.quality is what the encoder receives (lines 152-153)
SaveImage ==
    /\ handed' = Some(qSelf.quality)
    /\ UNCHANGED <<qSelf, qRaised, qCalls>>

-----------------------------------------------------------------------------
(* image_compression.py : constructing the compressor for a run that        *)
(* configures the handling of unsupported files                             *)

\* the parameters of ImageCompressor.__init__, lines 31-39
ImageCompressorParameters ==
    {"quality", "max_largest_side", "max_smallest_side", "preserve_structure",
     "output_format", "num_workers"}

\* the keywords a caller needs for a configuration other than the default
\* (tests/test_copy_unsupported.py, lines 13 and 26; main.py, lines 790-798)
ConfigKeywords ==
    (IF copy_unsupported THEN {} ELSE {"copy_unsupported"})
      \cup (IF unsupported_dir = None THEN {} ELSE {"unsupported_dir"})

ConfigIdle ==
    /\ copy_unsupported = TRUE /\ unsupported_dir = None
    /\ unsupported_tree = {} /\ cPc = "idle"

\* trees with at least one unsupported file, a fresh output root, no profiles
DirConfigInit ==
    /\ input_root \in {t \in InputTrees :
                         Cardinality(t) < MaxFiles /\ \E f \in t : ~IsSupported(f)}
    /\ compressor = DefaultCompressor
    /\ unreadable = {}
    /\ preserve_structure \in BOOLEAN
    /\ output_format = "JPEG"
    /\ dirProfiles = <<>>
    /\ num_workers \in {None} \cup {Some(n) : n \in 1..MaxWorkers}
    /\ outputBefore = [exists |-> FALSE, files |-> {}]
    /\ output_root = outputBefore
    /\ overwritten = {}
    /\ total_files = 0 /\ processed_files = 0 /\ compressed_files = 0
    /\ compressed_paths = <<>> /\ failed_files = <<>>
    /\ worker_count = 0 /\ tasks = <<>> /\ used_names = {} /\ toVisit = {}
    /\ futures = <<>> /\ saved = <<>> /\ error = ""
    /\ progress = <<>> /\ report = None /\ dPc = "start"
    /\ copy_unsupported \in BOOLEAN
    /\ unsupported_dir \in {None, Some("unsupported")}
    /\ unsupported_tree = {} /\ cPc = "new"

\* ImageCompressor(**keywords): a keyword __init__ does not declare raises
\* TypeError and no compressor exists
ConstructCompressor ==
    /\ cPc = "new"
    /\ cPc' = IF ConfigKeywords \subseteq ImageCompressorParameters
                THEN "constructed" ELSE "TypeError"
    /\ UNCHANGED <<copy_unsupported, unsupported_dir, unsupported_tree>>

\* process_directory is called on the constructed compressor
CallProcessDirectory == cPc = "constructed" /\ Begin

-----------------------------------------------------------------------------
(* image_pair.py : LRUCache, an OrderedDict with a bound                    *)

KeysOf(od) == {od[i][1] : i \in DOMAIN od}

\* OrderedDict.move_to_end(key)
move_to_end(od, key) ==
    LET i == CHOOSE k \in DOMAIN od : od[k][1] = key
    IN  SubSeq(od, 1, i - 1) \o SubSeq(od, i + 1, Len(od)) \o <<od[i]>>

\* self[key] = value: a present key keeps its position, a new one goes last
setitem(od, key, value) ==
    IF key \in KeysOf(od)
    THEN [i \in DOMAIN od |-> IF od[i][1] = key THEN <<key, value>> ELSE od[i]]
    ELSE Append(od, <<key, value>>)

\* LRUCache.put with popitem(last=True): the newest entry is dropped
put_PopLast(od, size, key, value) ==
    LET moved == move_to_end(setitem(od, key, value), key)
    IN  IF size > 0 /\ Len(moved) > size THEN SubSeq(moved, 1, Len(moved) - 1) ELSE moved

\* LRUCache.put, lines 43-47
put(od, size, key, value) ==
    LET moved == move_to_end(setitem(od, key, value), key)
    IN  IF size > 0 /\ Len(moved) > size THEN Tail(moved) ELSE moved

\* LRUCache.get, lines 37-41: <<the dict afterwards, the value returned>>
get(od, key) ==
    IF key \in KeysOf(od)
    THEN LET moved == move_to_end(od, key)
         IN  <<moved, Some(moved[Len(moved)][2])>>
    ELSE <<od, None>>

CacheIdle == lru = <<>> /\ max_size = 0 /\ touched = <<>> /\ ret = None

\* LRUCache(max_size), lines 33-35
CacheInit ==
    /\ lru = <<>> /\ max_size \in 0..MaxCacheSize /\ touched = <<>> /\ ret = None

CachePut ==
    \E key \in 1..MaxKeys, value \in {"a", "b"} :
        /\ Len(touched) < MaxTouches
        /\ lru' = put(lru, max_size, key, value)
        /\ touched' = Append(touched, key)
        /\ UNCHANGED <<max_size, ret>>

CacheGet ==
    \E key \in 1..MaxKeys :
        /\ Len(touched) < MaxTouches
        /\ lru' = get(lru, key)[1]
        /\ ret' = get(lru, key)[2]
        /\ touched' = IF key \in KeysOf(lru) THEN Append(touched, key) ELSE touched
        /\ UNCHANGED max_size

-----------------------------------------------------------------------------
(* Specifications *)

\* the groups of the viewer, of the main window and of the caches
lateVars == <<thumbVars, panelVars, qualityVars, configVars, cacheVars>>
LateIdle == ThumbIdle /\ PanelIdle /\ QualityIdle /\ ConfigIdle /\ CacheIdle

vars == <<matchVars, selectVars, resizeVars, dirVars, workerVars, timeVars, lateVars>>

notMatch  == <<selectVars, resizeVars, dirVars, workerVars, timeVars, lateVars>>
notSelect == <<matchVars, resizeVars, dirVars, workerVars, timeVars, lateVars>>
notResize == <<matchVars, selectVars, dirVars, workerVars, timeVars, lateVars>>
notDir    == <<matchVars, selectVars, resizeVars, workerVars, timeVars, lateVars>>
notWorker == <<matchVars, selectVars, resizeVars, timeVars, lateVars>>
notTime   == <<matchVars, selectVars, resizeVars, dirVars, workerVars, lateVars>>
earlyVars == <<matchVars, selectVars, resizeVars, dirVars, workerVars, timeVars>>
EarlyIdle == MatchIdle /\ SelectIdle /\ ResizeIdle /\ DirIdle /\ WorkerIdle /\ TimeIdle
notThumb  == <<earlyVars, panelVars, qualityVars, configVars, cacheVars>>
notPanel  == <<earlyVars, thumbVars, qualityVars, configVars, cacheVars>>
notQuality == <<earlyVars, thumbVars, panelVars, configVars, cacheVars>>
notConfig == <<earlyVars, thumbVars, panelVars, qualityVars, cacheVars>>
notCache  == <<earlyVars, thumbVars, panelVars, qualityVars, configVars>>

\* ProfileConditions.matches on every condition set and image of the model
MatchNext == Matches /\ UNCHANGED notMatch
InitMatch == MatchInit /\ SelectIdle /\ ResizeIdle /\ DirIdle /\ WorkerIdle /\ TimeIdle /\ LateIdle
SpecMatch == InitMatch /\ [][MatchNext]_vars

\* select, save, load, select again
SelectNext ==
    \/ SelectProfile /\ UNCHANGED notSelect
    \/ SaveProfiles /\ UNCHANGED notSelect
    \/ LoadProfiles /\ UNCHANGED notSelect
    \/ SelectLoaded /\ UNCHANGED notSelect
InitSelect == MatchIdle /\ SelectInit /\ ResizeIdle /\ DirIdle /\ WorkerIdle /\ TimeIdle /\ LateIdle
SpecSelect == InitSelect /\ [][SelectNext]_vars

\* the resize planning of compress_image
ResizeNext == PlanResize /\ UNCHANGED notResize
InitResize == MatchIdle /\ SelectIdle /\ ResizeInit /\ DirIdle /\ WorkerIdle /\ TimeIdle /\ LateIdle
SpecResize == InitResize /\ [][ResizeNext]_vars

\* process_directory on every input tree and configuration of the model
DirNext ==
    \/ Begin /\ UNCHANGED notDir
    \/ PlanFile /\ UNCHANGED notDir
    \/ StartExecution /\ UNCHANGED notDir
    \/ SeqCompress /\ UNCHANGED notDir
    \/ WorkerTake /\ UNCHANGED notDir
    \/ WorkerCompress /\ UNCHANGED notDir
    \/ Collect /\ UNCHANGED notDir
    \/ Return /\ UNCHANGED notDir
    \/ SaveCompressionSettings /\ UNCHANGED notDir
InitDir == MatchIdle /\ SelectIdle /\ ResizeIdle /\ DirInit /\ WorkerIdle /\ TimeIdle /\ LateIdle
SpecDir == InitDir /\ [][DirNext]_vars

\* process_directory with conditional profiles under every compressor
InitDirSettings == MatchIdle /\ SelectIdle /\ ResizeIdle /\ DirSettingsInit /\ WorkerIdle /\ TimeIdle /\ LateIdle
SpecDirSettings == InitDirSettings /\ [][DirNext]_vars

\* a CompressionWorker started on every directory and configuration of the
\* model, with the user free to press the abort button while it runs
WorkerNext ==
    \/ WorkerStart /\ UNCHANGED notWorker
    \/ WorkerCall /\ UNCHANGED notWorker
    \/ WorkerExcept /\ UNCHANGED notWorker
    \/ CompressionError /\ UNCHANGED notWorker
    \/ Stop /\ UNCHANGED notWorker
InitWorker == MatchIdle /\ SelectIdle /\ ResizeIdle /\ DirInit /\ WorkerInit /\ TimeIdle /\ LateIdle
SpecWorker == InitWorker /\ [][WorkerNext]_vars

\* format_timedelta on every duration of the model
TimeNext == FormatTimedelta /\ UNCHANGED notTime
InitTime == MatchIdle /\ SelectIdle /\ ResizeIdle /\ DirIdle /\ WorkerIdle /\ TimeInit /\ LateIdle
SpecTime == InitTime /\ [][TimeNext]_vars

\* thumbnail preloading over every list of pairs of the model
ThumbNext ==
    \/ PreloadThumbnails /\ UNCHANGED notThumb
    \/ RunnableRun /\ UNCHANGED notThumb
    \/ report_done /\ UNCHANGED notThumb
    \/ DialogExecReturn /\ UNCHANGED notThumb
InitThumb == EarlyIdle /\ ThumbInit /\ PanelIdle /\ QualityIdle /\ ConfigIdle /\ CacheIdle
SpecThumb == InitThumb /\ [][ThumbNext]_vars

\* the main window after any sequence of panel operations
PanelNext ==
    \/ AddProfilePanel /\ UNCHANGED notPanel
    \/ RemoveProfilePanel /\ UNCHANGED notPanel
    \/ ResetSettings /\ UNCHANGED notPanel
    \/ LoadProfilesIntoPanels /\ UNCHANGED notPanel
    \/ EditConditions /\ UNCHANGED notPanel
InitPanel == EarlyIdle /\ ThumbIdle /\ PanelInit /\ QualityIdle /\ ConfigIdle /\ CacheIdle
SpecPanel == InitPanel /\ [][PanelNext]_vars

\* a compressor built from any quality, then profiles applied and images saved
QualityNext ==
    \/ ApplyProfile /\ UNCHANGED notQuality
    \/ SaveImage /\ UNCHANGED notQuality
InitQuality == EarlyIdle /\ ThumbIdle /\ PanelIdle /\ QualityInit /\ ConfigIdle /\ CacheIdle
SpecQuality == InitQuality /\ [][QualityNext]_vars

\* a run under every configuration for unsupported files: the compressor is
\* constructed, then process_directory runs as in DirNext
DirConfigNext ==
    \/ ConstructCompressor /\ UNCHANGED notConfig
    \/ CallProcessDirectory /\ UNCHANGED notDir
    \/ PlanFile /\ UNCHANGED notDir
    \/ StartExecution /\ UNCHANGED notDir
    \/ SeqCompress /\ UNCHANGED notDir
    \/ WorkerTake /\ UNCHANGED notDir
    \/ WorkerCompress /\ UNCHANGED notDir
    \/ Collect /\ UNCHANGED notDir
    \/ Return /\ UNCHANGED notDir
    \/ SaveCompressionSettings /\ UNCHANGED notDir
InitDirConfig == MatchIdle /\ SelectIdle /\ ResizeIdle /\ DirConfigInit /\ WorkerIdle /\ TimeIdle
                   /\ ThumbIdle /\ PanelIdle /\ QualityIdle /\ CacheIdle
SpecDirConfig == InitDirConfig /\ [][DirConfigNext]_vars

\* any sequence of get and put on a cache of every size of the model
CacheNext ==
    \/ CachePut /\ UNCHANGED notCache
    \/ CacheGet /\ UNCHANGED notCache
InitCache == EarlyIdle /\ ThumbIdle /\ PanelIdle /\ QualityIdle /\ ConfigIdle /\ CacheInit
SpecCache == InitCache /\ [][CacheNext]_vars

-----------------------------------------------------------------------------
(* Properties *)

MatchesImage(p) == matches(p.conditions, ImageProperties(image))

\* C1: select_profile returns the matching profile with the greatest index:
\* the returned profile matches and no profile after it does; None is returned
\* only when no profile matches.
C1_LastMatchWins ==
    sPc \in {"selected", "saved", "loaded", "done"} =>
        /\ selected \in 0..Len(profiles)
        /\ selected > 0 => MatchesImage(profiles[selected])
        /\ \A j \in 1..Len(profiles) : j > selected => ~MatchesImage(profiles[j])

\* [default, middle, bottom] with middle and bottom both matching: bottom is returned
C1_Witness ==
    /\ sPc = "selected"
    /\ Len(profiles) = 3
    /\ profiles[1].name = "default" /\ profiles[2].name = "middle"
    /\ profiles[3].name = "bottom"
    /\ MatchesImage(profiles[2]) /\ MatchesImage(profiles[3])
    /\ selected = 3

\* C7: the planned dimensions respect max_largest_side and max_smallest_side
\* when set, and neither dimension grows.
C7_ResizeInvariant ==
    rPc = "planned" =>
        /\ \A m \in rLimits.largest : Max2(rNew.w, rNew.h) <= m
        /\ \A m \in rLimits.smallest : Min2(rNew.w, rNew.h) <= m
        /\ rNew.w <= rImg.w
        /\ rNew.h <= rImg.h

\* 5x4 under max_largest_side 4 and max_smallest_side 2: both passes scale
C7_Witness ==
    /\ rPc = "planned"
    /\ rImg = [w |-> 5, h |-> 4]
    /\ rLimits = [largest |-> Some(4), smallest |-> Some(2)]
    /\ rNew = [w |-> 2, h |-> 2]

\* C8: load_profiles(save_profiles(profiles)) has the same length and order and
\* every profile equals the original field by field; selection over the loaded
\* list returns the same profile as over the original.
C8_RoundTrip ==
    /\ sPc \in {"loaded", "done"} =>
        /\ Len(loaded) = Len(profiles)
        /\ \A i \in 1..Len(profiles) :
             /\ loaded[i].name = profiles[i].name
             /\ loaded[i].quality = profiles[i].quality
             /\ loaded[i].max_largest_side = profiles[i].max_largest_side
             /\ loaded[i].max_smallest_side = profiles[i].max_smallest_side
             /\ loaded[i].output_format = profiles[i].output_format
             /\ loaded[i].jpeg_params = profiles[i].jpeg_params
             /\ loaded[i].webp_params = profiles[i].webp_params
             /\ loaded[i].avif_params = profiles[i].avif_params
             /\ \A f \in FieldNames : loaded[i].conditions[f] = profiles[i].conditions[f]
    /\ sPc = "done" => selectedLoaded = selected

\* a list mixing a profile without conditions and one with file_size and EXIF
\* conditions, reloaded, the conditional profile selected from both lists
C8_Witness ==
    /\ sPc = "done"
    /\ Len(profiles) >= 2
    /\ profiles[1].conditions = AllUnset
    /\ profiles[Len(profiles)].name = "tagged"
    /\ selected = Len(profiles)
    /\ selectedLoaded = selected
    /\ profileFile[1].conditions.file_size.kind = "null"
    /\ profileFile[Len(profiles)].conditions.file_size.kind = "object"

\* C9: conditions with every field unset match every image, also when file
\* size, transparency, format and EXIF are absent.
C9_Vacuity ==
    (mPc = "done" /\ mCond = AllUnset) => MatchReturn

C9_Witness ==
    /\ mPc = "done"
    /\ mCond = AllUnset
    /\ mImage.file_size = None /\ mImage.has_transparency = None
    /\ mImage.exif = None /\ mImage.image_format = None
    /\ MatchReturn

\* C10: a set file_size condition with the file size absent, or a set
\* transparency condition with the transparency absent, makes matches return
\* false whatever else is set; an unset condition contributes True to the list.
C10_FailClosed ==
    mPc = "done" =>
        /\ (mCond.file_size # None /\ mImage.file_size = None) => ~MatchReturn
        /\ (mCond.requires_transparency # None /\ mImage.has_transparency = None)
               => ~MatchReturn
        /\ \A i \in 1..Len(CondFields) : mCond[CondFields[i]] = None => mResults[i]

\* file_size set and absent next to an orientation condition the image passes
C10_Witness ==
    /\ mPc = "done"
    /\ mCond.file_size # None /\ mImage.file_size = None
    /\ mCond.orientation = Some("square") /\ mImage.width = mImage.height
    /\ mResults[5] /\ ~mResults[8]
    /\ ~MatchReturn

-----------------------------------------------------------------------------
(* Properties of process_directory *)

Images == {f \in input_root : IsSupported(f)}
Finished == dPc \in {"returned", "raised"}
TaskIndexes == 1..Len(tasks)
SeqToSet(seq) == {seq[i] : i \in 1..Len(seq)}

\* C2: with a fresh output root and exactly one corrupt file among the images,
\* whatever the profile list and worker count, the corrupt file does not make
\* process_directory raise, and the call returns N successes and one failure
\* entry naming the corrupt file.
C2_FailureIsolation ==
    (Finished /\ ~outputBefore.exists /\ Cardinality(unreadable) = 1) =>
        /\ error # "UnidentifiedImageError"
        /\ dPc = "returned" =>
             /\ compressed_files = Cardinality(Images) - 1
             /\ Len(compressed_paths) = Cardinality(Images) - 1
             /\ SeqToSet(failed_files) = unreadable
             /\ Len(failed_files) = 1

\* C3: an output root that exists makes process_directory raise
\* FileExistsError at once: no task is created or dispatched and the output
\* root keeps exactly the content it had.
C3_RejectExisting ==
    (outputBefore.exists /\ dPc # "start") =>
        /\ dPc = "raised" /\ error = "FileExistsError"
        /\ tasks = <<>> /\ futures = <<>> /\ toVisit = {}
        /\ processed_files = 0 /\ compressed_paths = <<>>
        /\ output_root = outputBefore

C3_Witness ==
    /\ outputBefore.exists /\ outputBefore.files # {}
    /\ Images # {}
    /\ dPc = "raised" /\ error = "FileExistsError"
    /\ total_files = Cardinality(Images)

\* the names the while loop tried before it settled on the destination of task i
TriedBefore(i) ==
    LET t == tasks[i]
        plain == File(<<>>, t.src.stem, t.dst.ext)
    IN  IF t.dst = plain THEN {}
        ELSE {plain} \cup {File(<<>>, Append(t.src.stem, k), t.dst.ext) :
                             k \in 1..(t.dst.stem[Len(t.dst.stem)] - 1)}

\* C4: when flattening, no planned output path equals another task's, a copied
\* file's or an existing file's, no write ever lands on a file that is already
\* there, and a destination is the plain name or, when that is taken, the
\* first free name_1, name_2, ...
C4_FlattenNoOverwrite ==
    ~preserve_structure =>
        /\ \A i, j \in TaskIndexes : i # j => tasks[i].dst # tasks[j].dst
        /\ \A i \in TaskIndexes :
             \A e \in output_root.files : e.path = tasks[i].dst => e.src = tasks[i].src
        /\ overwritten = {}
        /\ \A i \in TaskIndexes :
             LET t == tasks[i]
             IN  /\ t.dst.dir = <<>>
                 /\ t.dst.ext = _get_extension_according_format(output_format)
                 /\ \/ t.dst.stem = t.src.stem
                    \/ \E k \in 1..Len(tasks) : t.dst.stem = Append(t.src.stem, k)
                 /\ TriedBefore(i) \subseteq {tasks[j].dst : j \in 1..(i - 1)}

\* x.jpg from two subdirectories, flattened: x.jpg and x_1.jpg, both written
C4_Witness ==
    /\ ~preserve_structure
    /\ dPc = "returned"
    /\ \E i, j \in TaskIndexes :
         /\ i < j
         /\ tasks[i].src.dir # tasks[j].src.dir
         /\ tasks[i].src.stem = <<"x">> /\ tasks[j].src.stem = <<"x">>
         /\ tasks[i].src.ext = ".jpg" /\ tasks[j].src.ext = ".jpg"
         /\ tasks[i].dst = File(<<>>, <<"x">>, ".jpg")
         /\ tasks[j].dst = File(<<>>, <<"x", 1>>, ".jpg")
         /\ {tasks[i].dst, tasks[j].dst} \subseteq Paths(output_root.files)
    /\ compressed_files = Len(tasks)

\* C5: in structure-preserving mode the destination of every image is its
\* path relative to the input root with only the extension replaced.
C5_MirrorsRelativePath ==
    preserve_structure =>
        \A i \in TaskIndexes :
            tasks[i].dst = File(tasks[i].src.dir, tasks[i].src.stem,
                                _get_extension_according_format(output_format))

\* C6: after planning no two tasks share a destination, under either policy.
C6_DistinctDestinations ==
    dPc \in {"sequential", "parallel", "returned"} =>
        \A i, j \in TaskIndexes : i # j => tasks[i].dst # tasks[j].dst
-----------------------------------------------------------------------------
(* Properties of EXIF matching *)

\* C11: when required_exif is set and matches returns true, every listed key
\* is present in the image's EXIF map with exactly the listed value; a listed
\* key the EXIF map lacks makes the match fail whatever the listed value is.
C11_ExifExact ==
    (mPc = "done" /\ mCond.required_exif # None /\ MatchReturn) =>
        \A req \in mCond.required_exif : \A kv \in req :
            /\ mImage.exif # None
            /\ \A e \in mImage.exif : kv \in e
-----------------------------------------------------------------------------
(* Properties of the fallback to the compressor's own parameters *)

NoProfileMatches(f) == select_profile(FileImage(f), dirProfiles) = 0

-----------------------------------------------------------------------------
(* Properties of progress reporting *)

Collected == {i \in 1..Len(futures) : futures[i] = "collected"}

\* C15: progress_callback is called with (0, total) first and then once per
\* completed task, in sequential and in parallel mode and in any completion
\* order: the k-th call after the first carries completed = k, total is the
\* number of images in every call, and when process_directory returns the
\* calls have counted every compression task, 1 up to total.
C15_ProgressCallback ==
    /\ dPc # "start" =>
         /\ Len(progress) = processed_files + 1
         /\ \A k \in 1..Len(progress) : progress[k] = <<k - 1, Cardinality(Images)>>
    /\ dPc = "parallel" => processed_files = Cardinality(Collected)
    /\ dPc = "returned" =>
         /\ Len(tasks) = Cardinality(Images)
         /\ Len(progress) = Len(tasks) + 1
         /\ progress[Len(progress)] = <<Len(tasks), Len(tasks)>>

\* three tasks on two workers, the second submitted task collected first
C15_Witness ==
    /\ dPc = "returned"
    /\ worker_count = 2
    /\ Len(tasks) = 3
    /\ compressed_paths # <<>>
    /\ compressed_paths[1] = tasks[2].dst
    /\ progress = << <<0, 3>>, <<1, 3>>, <<2, 3>>, <<3, 3>> >>
-----------------------------------------------------------------------------
(* Properties of the worker count *)

\* lines 374-386 as a function: the counts and lists the sequential loop
\* builds from the first n tasks of ts
RECURSIVE SequentialLoop(_, _)
SequentialLoop(ts, n) ==
    IF n = 0
    THEN [compressed_files |-> 0, compressed_paths |-> <<>>, failed_files |-> <<>>]
    ELSE LET r == SequentialLoop(ts, n - 1)
             saved_path == compress_image(ts[n])
         IN  IF saved_path # None
             THEN [r EXCEPT !.compressed_files = @ + 1,
                            !.compressed_paths = Append(@, CHOOSE x \in saved_path : TRUE)]
             ELSE [r EXCEPT !.failed_files = Append(@, ts[n].src)]

\* C16: whatever the worker count, process_directory returns the total, the
\* success count, the set of output paths and the set of failed sources that
\* the sequential loop produces for the same tasks, and every output path
\* holds a file whose timestamps were copied from a source compressed to it;
\* with one worker the lists are also in task order.
C16_WorkerCountEquivalence ==
    dPc = "returned" =>
        LET seq == SequentialLoop(tasks, Len(tasks))
        IN  /\ total_files = Cardinality(Images)
            /\ compressed_files = seq.compressed_files
            /\ Len(compressed_paths) = Len(seq.compressed_paths)
            /\ SeqToSet(compressed_paths) = SeqToSet(seq.compressed_paths)
            /\ Len(failed_files) = Len(seq.failed_files)
            /\ SeqToSet(failed_files) = SeqToSet(seq.failed_files)
            /\ worker_count = 1 =>
                 /\ compressed_paths = seq.compressed_paths
                 /\ failed_files = seq.failed_files
            /\ \A p \in SeqToSet(compressed_paths) :
                 \E e \in output_root.files, i \in TaskIndexes :
                     /\ e.path = p /\ tasks[i].dst = p
                     /\ tasks[i].src \notin unreadable
                     /\ e.times = tasks[i].src

\* two workers, one corrupt file and two successes collected against task order
C16_Witness ==
    /\ dPc = "returned"
    /\ worker_count = 2
    /\ Len(failed_files) = 1
    /\ Len(compressed_paths) = 2
    /\ compressed_paths # SequentialLoop(tasks, Len(tasks)).compressed_paths
    /\ SeqToSet(compressed_paths) =
           SeqToSet(SequentialLoop(tasks, Len(tasks)).compressed_paths)

\* C17: when neither the constructor nor process_directory is given a worker
\* count, the tasks run on a worker pool of os.cpu_count() workers.
C17_DefaultWorkerCount ==
    (num_workers = None /\ dPc \in {"planning", "sequential", "parallel", "returned"}) =>
        /\ worker_count = CpuCount
        /\ dPc # "sequential"

\* C18: when process_directory has returned, every dispatched task is
\* terminal and accounted for (none pending or running), and the statistics
\* and the report exist only after that return and carry the returned totals.
C18_StatsAfterAllTerminal ==
    /\ dPc = "returned" =>
         /\ \A i \in 1..Len(futures) : futures[i] = "collected"
         /\ processed_files = Len(tasks)
         /\ Len(compressed_paths) + Len(failed_files) = Len(tasks)
    /\ report # None =>
         /\ dPc = "returned"
         /\ \A r \in report :
              /\ r.stats.total_files = Len(tasks)
              /\ r.stats.compressed_files + r.stats.failed_files_count = Len(tasks)

\* the report of a run of three tasks on two workers, one of them failed
C18_Witness ==
    /\ report # None
    /\ worker_count = 2
    /\ Len(futures) = 3
    /\ \A i \in 1..Len(futures) : futures[i] = "collected"
    /\ \E r \in report : r.stats.compressed_files = 2 /\ r.stats.failed_files_count = 1

\* C19: every entry of the failure list process_directory builds, and every
\* entry of the failed_files section of the report, is the failed file's path
\* together with a non-empty reason, and a returned run with a failure has
\* one entry per failed file.
C19_FailuresItemized ==
    /\ \A i \in 1..Len(failed_files) :
         /\ {"path", "error"} \subseteq DOMAIN failed_files[i]
         /\ failed_files[i].error # ""
    /\ \A r \in report : \A i \in 1..Len(r.failed_files) :
         /\ r.failed_files[i].kind = "object"
         /\ {"path", "error"} \subseteq DOMAIN r.failed_files[i]
    /\ dPc = "returned" =>
         Len(failed_files) = Cardinality({i \in TaskIndexes : tasks[i].src \in unreadable})
-----------------------------------------------------------------------------
(* Properties of cancellation *)

\* C13: once stop has been requested and the directory driver has been handed
\* the flag, the driver ends by returning normally, not by raising, with no
\* task left running and every completed task in the counts it returns.
C13_CancelStopsDispatch ==
    (stop_event /\ wPc \in {"except", "emitted", "handled"}) =>
        /\ dPc = "returned"
        /\ error = ""
        /\ \A i \in 1..Len(futures) : futures[i] \in {"pending", "collected"}
        /\ processed_files = Len(compressed_paths) + Len(failed_files)

\* C14: a run in which stop was requested ends with compression_finished
\* emitted and cancelled set, and without error_occurred.
C14_CancelledStatus ==
    (stop_event /\ wPc \in {"emitted", "handled"}) =>
        /\ cancelled
        /\ signals[Len(signals)] = "compression_finished"
        /\ "error_occurred" \notin SeqToSet(signals)
-----------------------------------------------------------------------------
(* Properties of format_timedelta *)

Units == <<"d", "h", "m", "s">>

\* the whole days, hours, minutes and seconds of the duration
UnitValue(unit) ==
    CASE unit = "d" -> delta.days
      [] unit = "h" -> delta.seconds \div 3600
      [] unit = "m" -> (delta.seconds % 3600) \div 60
      [] unit = "s" -> delta.seconds % 60

UnitRank(unit) == CHOOSE k \in 1..Len(Units) : Units[k] = unit

\* "<d>d <h>h <m>m <s>s" without its zero-valued leading units: every unit
\* from the first non-zero one down to the seconds, the seconds alone for zero
LeadingUnitsOmitted ==
    LET first == IF \E k \in 1..3 : UnitValue(Units[k]) # 0
                 THEN CHOOSE k \in 1..3 :
                          /\ UnitValue(Units[k]) # 0
                          /\ \A j \in 1..(k - 1) : UnitValue(Units[j]) = 0
                 ELSE 4
    IN  [i \in 1..(5 - first) |-> Part(UnitValue(Units[first + i - 1]), Units[first + i - 1])]

\* C20 as stated: the result is "<d>d <h>h <m>m <s>s" with the zero-valued
\* leading units left out, "0s" for a zero duration.
C20_LeadingZeroUnitsOmitted ==
    tPc = "done" => parts = LeadingUnitsOmitted

\* C20 as amended: the result lists, in the order d, h, m, s, exactly the
\* units whose value is not zero, each with its value, and is "0s" when every
\* unit is zero; a fraction of a second is cut off.
C20_ZeroUnitsOmitted ==
    tPc = "done" =>
        /\ parts # <<>>
        /\ \A i, j \in 1..Len(parts) :
             i < j => UnitRank(parts[i].unit) < UnitRank(parts[j].unit)
        /\ \A i \in 1..Len(parts) :
             /\ parts[i].n = UnitValue(parts[i].unit)
             /\ parts[i].n = 0 => parts = <<Part(0, "s")>>
        /\ \A k \in 1..Len(Units) :
             UnitValue(Units[k]) # 0 =>
                 \E i \in 1..Len(parts) : parts[i].unit = Units[k]

\* 1 day 1 hour 0 minutes 59.999999 seconds renders as "1d 1h 59s"
C20_Witness ==
    /\ tPc = "done"
    /\ delta = [days |-> 1, seconds |-> 3659, microseconds |-> 999999]
    /\ parts = <<Part(1, "d"), Part(1, "h"), Part(59, "s")>>
-----------------------------------------------------------------------------
(* C21: every ThumbnailRunnable that has run has reported done to the       *)
(* observer exactly once, also when generating its thumbnail raised; so     *)
(* once all runnables of the N pairs have run and their reports were        *)
(* delivered, the done count is N and finished was emitted.                 *)

C21_ReportsDoneOnce ==
    /\ \A i \in DOMAIN runnable :
          runnable[i] \in {"returned", "raised"} => posted[i] = 1
    /\ ((tnPc = "exec" /\ events = 0
           /\ \A i \in DOMAIN runnable : runnable[i] \in {"returned", "raised"})
        => /\ observer.done = Len(image_pairs)
           /\ \E k \in DOMAIN tnSignals : tnSignals[k].signal = "finished")

-----------------------------------------------------------------------------
(* C22: after any sequence of add, remove, reset and load operations the    *)
(* window's profile list is non-empty and its profile at index 0 carries no *)
(* conditions, so select_profile over the window's profiles returns a       *)
(* profile for every image.                                                 *)

C22_DefaultAlwaysFirst ==
    /\ Len(profile_panels) >= 1
    /\ WindowProfiles[1].conditions = AllUnset
    /\ \A img \in SelectImages : select_profile(img, WindowProfiles) # 0

\* a list loaded from a file whose first profile is conditional, then trimmed
\* by the remove button and grown again by the add button
C22_Witness ==
    /\ Len(profile_panels) = 2
    /\ profile_panels[1].orientation_combo = "portrait"
    /\ profile_panels[1].name_edit = <<"top">>
    /\ profile_panels[2].name_edit = <<>>
    /\ get_conditions(profile_panels[2]) # AllUnset
    /\ \E img \in SelectImages : select_profile(img, WindowProfiles) = 1

-----------------------------------------------------------------------------
(* C23: with the names left at their generated defaults, the profiles       *)
(* produced from the panels have pairwise distinct names.                   *)

C23_UniqueNames ==
    (\A i \in DOMAIN profile_panels : profile_panels[i].name_edit = <<>>)
        => \A i, j \in DOMAIN profile_panels :
              i # j => WindowProfiles[i].name # WindowProfiles[j].name

-----------------------------------------------------------------------------
(* C24: after construction and after any sequence of apply_profile calls    *)
(* the quality of an ImageCompressor, and so the quality it hands to an     *)
(* encoder, is within 1..100.                                               *)

C24_QualityClamped ==
    /\ qSelf.quality \in 1..100
    /\ \A q \in handed : q \in 1..100

-----------------------------------------------------------------------------
(* C25: when a run has ended, each unsupported file was handled in the one  *)
(* way its configuration chose: copied with its timestamps under the output *)
(* root (at its relative path when the structure is preserved); or, with a  *)
(* separate unsupported directory, copied there and not into the output     *)
(* root; or, with copying disabled, written nowhere.                        *)

CopiesOf(f, files) == {e \in files : e.src = f /\ e.times = f}

C25_UnsupportedHandledOnce ==
    (cPc = "TypeError" \/ (cPc = "constructed" /\ Finished)) =>
        \A f \in input_root :
            ~IsSupported(f) =>
                IF ~copy_unsupported
                  THEN CopiesOf(f, output_root.files) = {}
                       /\ CopiesOf(f, unsupported_tree) = {}
                ELSE IF unsupported_dir # None
                  THEN CopiesOf(f, unsupported_tree) # {}
                       /\ CopiesOf(f, output_root.files) = {}
                ELSE /\ Cardinality(CopiesOf(f, output_root.files)) = 1
                     /\ CopiesOf(f, unsupported_tree) = {}
                     /\ preserve_structure =>
                           \E e \in CopiesOf(f, output_root.files) : e.path = f

-----------------------------------------------------------------------------
(* C26: when process_directory returns, every planned task was consumed     *)
(* once and ended in exactly one of success or failure: the success count   *)
(* is the number of returned paths, successes plus failures is the number   *)
(* of planned tasks and the reported total, no source is listed as failed   *)
(* twice, and no failed source has an output among the returned paths.      *)

C26_TaskConsumedOnce ==
    dPc = "returned" =>
        /\ compressed_files = Len(compressed_paths)
        /\ compressed_files + Len(failed_files) = Len(tasks)
        /\ Len(tasks) = total_files
        /\ processed_files = total_files
        /\ \A i, j \in DOMAIN failed_files : i # j => failed_files[i] # failed_files[j]
        /\ SeqToSet(failed_files) \subseteq {tasks[i].src : i \in TaskIndexes}
        /\ Len(compressed_paths)
             = Cardinality({i \in TaskIndexes : tasks[i].src \notin SeqToSet(failed_files)})
        /\ \A f \in SeqToSet(failed_files) :
              ~\E e \in output_root.files :
                    e.src = f /\ e.path \in SeqToSet(compressed_paths)

\* a parallel run that returned with successes and a failure
C26_Witness ==
    /\ dPc = "returned" /\ worker_count > 1
    /\ Len(failed_files) = 1 /\ compressed_files >= 1
    /\ Len(tasks) = MaxFiles

-----------------------------------------------------------------------------
(* C27: in parallel mode the success list, the failure list and the         *)
(* counters change only in a step of the driver thread that takes one       *)
(* finished future: each such step records exactly one result, so under any *)
(* interleaving of worker completions the number of recorded results is the *)
(* number of collected futures.                                             *)

C27_SingleCollector ==
    [][dPc = "parallel" =>
         /\ (dirCounts' # dirCounts \/ progress' # progress) =>
               \E i \in TaskIndexes :
                  /\ futures[i] = "finished"
                  /\ futures' = [futures EXCEPT ![i] = "collected"]
                  /\ processed_files' = processed_files + 1
                  /\ Len(compressed_paths') + Len(failed_files')
                       = Len(compressed_paths) + Len(failed_files) + 1
                  /\ Len(progress') = Len(progress) + 1
         /\ processed_files' = Cardinality({i \in TaskIndexes : futures'[i] = "collected"})
         /\ Len(compressed_paths') + Len(failed_files') = processed_files'
      ]_vars

\* a later task was collected while an earlier one is still with a worker
C27_Witness ==
    /\ dPc = "parallel" /\ Len(tasks) >= 2
    /\ futures[2] = "collected" /\ futures[1] \in {"running", "finished"}
    /\ processed_files = 1

-----------------------------------------------------------------------------
(* C28: with max_size > 0 the cache never holds more than max_size entries; *)
(* an operation removes entries only when it is a put of a new key into a   *)
(* full cache, and then it removes exactly one, the cached key whose last   *)
(* put or successful get lies furthest back; with max_size 0 no entry is    *)
(* ever removed. The key just put or read is the most recent entry.         *)

\* the position in `touched` of the last put or successful get of key
LastTouch(key) ==
    CHOOSE i \in DOMAIN touched :
        touched[i] = key /\ \A j \in DOMAIN touched : touched[j] = key => j <= i

LeastRecentlyUsed ==
    CHOOSE key \in KeysOf(lru) :
        \A other \in KeysOf(lru) : LastTouch(key) <= LastTouch(other)

C28_BoundedLru ==
    /\ [](max_size > 0 => Len(lru) <= max_size)
    /\ [][/\ max_size = 0 => KeysOf(lru) \subseteq KeysOf(lru')
          /\ KeysOf(lru) \ KeysOf(lru') # {} =>
                /\ max_size > 0 /\ Len(lru) = max_size
                /\ Len(touched') = Len(touched) + 1
                /\ touched'[Len(touched')] \notin KeysOf(lru)
                /\ KeysOf(lru) \ KeysOf(lru') = {LeastRecentlyUsed}
                /\ KeysOf(lru') = (KeysOf(lru) \ {LeastRecentlyUsed})
                                     \cup {touched'[Len(touched')]}
          /\ Cardinality(KeysOf(lru')) = Len(lru')
          /\ touched' # touched =>
                /\ Len(lru') >= 1
                /\ lru'[Len(lru')][1] = touched'[Len(touched')]
       ]_vars

\* put 1, put 2, get 1, put 3 on a cache of two: 2 was evicted, not 1
C28_Witness ==
    /\ max_size = 2
    /\ touched = <<1, 2, 1, 3>>
    /\ KeysOf(lru) = {1, 3}
    /\ lru[1][1] = 1 /\ lru[2][1] = 3

-----------------------------------------------------------------------------
(* C30: for an image with positive width and height and positive limits,    *)
(* both dimensions planned by compress_image are at least 1.                *)

C30_DimensionsPositive ==
    rPc = "planned" => (rNew.w >= 1 /\ rNew.h >= 1)

=============================================================================
